---- MODULE Spec2Model ----
(***************************************************************************)
(* A model of the Wavelink client: Queue (queue.py), Player (player.py),   *)
(* Node / Pool (node.py), Websocket (websocket.py), Backoff (backoff.py).  *)
(* Each component has its own specification over the shared variables:     *)
(*   SpecQueue  the synchronous Queue operations                           *)
(*   SpecWait   Queue.get_wait callers against put / get                   *)
(*   SpecPlay   Player.play / Player.set_volume                            *)
(*   SpecPool   Pool.get_node over the node registry                       *)
(*   SpecRec    Player._do_recommendation                                  *)
(*   SpecWS     Websocket.connect                                          *)
(***************************************************************************)
EXTENDS Integers, Sequences, FiniteSets, Bags, TLC

None == "None"

\* Playable objects, and an object that is not a Playable.
Tracks == {"a", "b"}
NotPlayable == "x"

\* Bounds of the model.
MaxItems == 2
MaxColl == 2
MaxLog == 3

QueueModes == {"normal", "loop", "loop_all"}

\* The callers of Queue.get_wait (asyncio tasks).
Callers == {"w1", "w2", "w3"}

\* The two tasks of the specifications that need no third.
Pair == {"w1", "w2"}

VARIABLES
    items,      \* Queue._items
    history,    \* Queue._history._items
    mode,       \* Queue._mode
    loaded,     \* Queue._loaded
    waiters,    \* Queue._waiters: the callers whose future is in the deque
    fut,        \* per caller, the state of its waiter future
    ready,      \* the event loop's FIFO of woken tasks
    pc,         \* per caller, its position in get_wait
    got,        \* per caller, the track get_wait returned
    ticket,     \* per caller, the order of its first registration (0: never)
    ret,        \* the last call: operation, arguments, value returned, exception
    putLog,     \* tracks appended to items since the mode was last set
    getLog,     \* tracks returned by get since the mode was last set
    current,    \* Player._current
    original,   \* Player._original
    previous,   \* Player._previous
    volume,     \* Player._volume
    paused,     \* Player._paused
    filters,    \* Player._filters
    pool,       \* Pool.__nodes: the identifiers, in insertion order
    nstatus,    \* per node, Node._status
    total,      \* per node, Node._total_player_count (empty: None)
    players,    \* per node, the guild ids of Node._players
    auto_items,     \* Player.auto_queue._items
    auto_history,   \* Player.auto_queue._history._items
    previous_seeds, \* Player.__previous_seeds, oldest first
    history_count,  \* Player._history_count (empty: None)
    timers,         \* inactivity countdown tasks created and still pending
    query,          \* the seeds of the last recommendation queries
    runs,           \* recommendation runs that formed their queries
    autoplay,       \* Player._autoplay
    session_id,     \* Node._session_id of the connecting node
    websocket,      \* whether Node._websocket is set
    client,         \* whether Node._client is set
    node_retries,   \* Node._retries (empty: None)
    socket,         \* Websocket.socket: none, open or closed
    keep_alive,     \* Websocket.keep_alive_task: none, running or cancelled
    wpc,            \* the position of Websocket.connect
    caller,         \* who awaits Websocket.connect
    retries,        \* the local retries of Websocket.connect (empty: None)
    b_retries,      \* Backoff._retries
    b_last_wait,    \* Backoff._last_wait
    b_base,         \* Backoff._base
    b_maximum_time, \* Backoff._maximum_time
    b_maximum_tries,\* Backoff._maximum_tries (empty: None)
    b_calls,        \* calculate() calls since the Backoff was created
    attempts,       \* session.ws_connect calls of the running Websocket.connect
    ready_sid,      \* the sessionId of the last ready message received
    sessions,       \* Node._session_id of every Node object
    connects,       \* Websocket.connect calls made for every Node object
    pnode,          \* Player._node of the player of every guild
    pstate,         \* new (no guild yet), connected or disconnected (Player._connected)
    sw,             \* the position of every running Player.switch_node
    ended,          \* the reasons of the track-end events whose handler task is pending
    channel_limit,  \* Player._inactive_channel_limit (empty: None)
    channel_count,  \* Player._inactive_channel_count
    error_count,    \* Player._error_count
    cache_capacity, \* the capacity of Pool.__cache (empty: Pool.__cache is None)
    cache,          \* per encoded query, the entry of Pool.__cache (empty: none)
    cache_freq,     \* per encoded query, the uses the cache counts for its entry
    lock,           \* Queue._lock: the task that holds it (None: free)
    lock_waiters,   \* the tasks waiting for Queue._lock, first come first
    pw,             \* per task, its position in Queue.put_wait and what it has left to insert
    putter,         \* per element of items, the put_wait task that inserted it
    acquired,       \* the tasks that acquired Queue._lock, in this order
    _connected,     \* Player._connected
    voice_state,    \* Player._voice_state["voice"]: which of its three keys hold a value
    connection_event, \* Player._connection_event is set
    reconnecting,   \* Player._reconnecting is set
    attached,       \* the host's voice client of the guild is this player
    vpc,            \* the position of the host's connect or move_to call on the player
    dwait,          \* the _disconnected_wait tasks waiting for Player._reconnecting
    itask,          \* Player._inactivity_task is a pending task
    dispatched,     \* a voice update reached the player's node since _connected was last cleared
    vreq,           \* the keys the last voice-update request carried (empty: none sent)
    discards,       \* destroy-player requests sent since the player registered
    auto_lock,      \* Player._auto_lock: the task that holds it (None: free)
    auto_waiters,   \* the tasks waiting for Player._auto_lock, first come first
    rec,            \* per task, its position in a run of Player._do_recommendation
    superseded,     \* pending countdown tasks created before the last track start
    inactive_sent,  \* inactive-player notifications the last track-end handler dispatched itself
    emitted         \* the events dispatched by the last step

qvars == <<items, history, mode, loaded>>
wvars == <<waiters, fut, ready, pc, got, ticket>>
lvars == <<putLog, getLog>>
pvars == <<current, original, previous, volume, paused, filters>>
\* Everything outside the queue, left alone by the queue's operations.
nvars == <<pool, nstatus, total, players>>
avars == <<auto_items, auto_history, previous_seeds, history_count, timers, query, runs, autoplay>>
bcfg == <<b_base, b_maximum_time, b_maximum_tries>>
svars == <<session_id, websocket, client, node_retries, socket, keep_alive, wpc, caller,
           retries, b_retries, b_last_wait, b_calls, bcfg, attempts, ready_sid, emitted>>
\* The Node objects of the registry, beside their status in nstatus.
ovars == <<sessions, connects>>
\* The players of the guilds and the nodes they are assigned to.
gvars == <<pnode, pstate, sw>>
\* The track-end events and the counters of their handler.
evars == <<ended, channel_limit, channel_count, error_count>>
\* The request cache of the Pool.
cvars == <<cache_capacity, cache, cache_freq>>
\* Queue._lock and the put_wait calls.
kvars == <<lock, lock_waiters, pw, putter, acquired>>
\* The state of the later sections, left alone by the earlier ones.
\* The voice handshake of one player.
hvars == <<_connected, voice_state, connection_event, reconnecting, attached, vpc, dwait, itask,
           dispatched, vreq, discards>>
\* The recommendation runs as tasks, and the age of the countdowns.
rvars == <<auto_lock, auto_waiters, rec, superseded, inactive_sent>>
yvars == <<kvars, hvars, rvars>>
\* The state of the earlier sections outside the queue.
base == <<pvars, nvars, avars, svars, ovars, gvars, evars, cvars>>
xq == <<pvars, nvars, avars, svars, ovars, gvars, evars, cvars, yvars>>
\* Everything outside the queue and the playback fields.
xp == <<nvars, svars, ovars, gvars, evars, cvars, yvars>>
\* Everything outside the pool and its nodes.
xn == <<qvars, wvars, lvars, pvars, avars, svars, ovars, gvars, evars, cvars, yvars>>
\* Everything outside the nodes and their websocket.
xs == <<qvars, wvars, lvars, pvars, avars, ovars, gvars, evars, cvars, yvars>>
vars == <<qvars, wvars, lvars, ret, xq>>

Ret(op, arg, val, exc) == [op |-> op, arg |-> arg, val |-> val, exc |-> exc]

----------------------------------------------------------------------------
(* Queue                                                                    *)

\* An item handed to put: one object, or an iterable of objects.
One(e) == [kind |-> "one", v |-> e]
Many(s) == [kind |-> "many", v |-> s]

SeqsUpTo(S, n) == UNION {[1..k -> S] : k \in 0..n}

Objects == Tracks \cup {NotPlayable}
PutItems == {One(e) : e \in Objects} \cup {Many(s) : s \in SeqsUpTo(Objects, MaxColl)}

_check_compatibility(item) == item \in Tracks

_check_atomic(item) == \A i \in 1..Len(item) : _check_compatibility(item[i])

passing_items(item) == SelectSeq(item, _check_compatibility)

\* Queue._wakeup_next: drop the waiters that are done, wake the first pending one.
RECURSIVE SkipDone(_, _)
SkipDone(w, f) ==
    IF w = <<>> THEN <<>>
    ELSE IF f[Head(w)] = "pending" THEN w ELSE SkipDone(Tail(w), f)

_wakeup_next ==
    LET s == SkipDone(waiters, fut) IN
    IF s = <<>>
    THEN /\ waiters' = <<>>
         /\ UNCHANGED <<fut, ready>>
    ELSE /\ waiters' = Tail(s)
         /\ fut' = [fut EXCEPT ![Head(s)] = "done"]
         /\ ready' = Append(ready, Head(s))

\* Queue.put raises TypeError: an atomic collection with an element that is not
\* a Playable, or a single object that is not a Playable.
put_raises(item, atomic) ==
    IF item.kind = "many"
    THEN atomic /\ ~_check_atomic(item.v)
    ELSE ~_check_compatibility(item.v)

\* What Queue.put appends to items.
put_added_partial(item, atomic) ==
    IF item.kind = "many"
    THEN passing_items(item.v)
    ELSE IF _check_compatibility(item.v) THEN <<item.v>> ELSE <<>>

put_added(item, atomic) ==
    IF item.kind = "many"
    THEN IF atomic
         THEN IF _check_atomic(item.v) THEN item.v ELSE <<>>
         ELSE passing_items(item.v)
    ELSE IF _check_compatibility(item.v) THEN <<item.v>> ELSE <<>>

put(item, atomic) ==
    LET add == put_added(item, atomic) IN
    /\ Len(items) + Len(add) <= MaxItems
    /\ Len(putLog) + Len(add) <= MaxLog
    /\ items' = items \o add
    /\ putLog' = putLog \o add
    /\ IF put_raises(item, atomic)
       THEN /\ ret' = Ret("put", [item |-> item, atomic |-> atomic], 0, "TypeError")
            /\ UNCHANGED <<waiters, fut, ready>>
       ELSE /\ _wakeup_next
            /\ ret' = Ret("put", [item |-> item, atomic |-> atomic], Len(add), None)
    /\ UNCHANGED <<history, mode, loaded, pc, got, ticket, getLog>>
    /\ UNCHANGED xq

\* The track Queue.get takes out of a non-empty items, and what it leaves.
pop0_last(its) == its[Len(its)]

pop0(its) == Head(its)

after_pop0(its) == Tail(its)

\* Queue.get in loop_all mode with no items: items refilled from history.
refill_keep_history(its, hist, m) ==
    IF m = "loop_all" /\ its = <<>> THEN <<its \o hist, hist>> ELSE <<its, hist>>

refill(its, hist, m) ==
    IF m = "loop_all" /\ its = <<>> THEN <<its \o hist, <<>>>> ELSE <<its, hist>>

get_loop_pops(m, l) == FALSE

get_loop(m, l) == m = "loop" /\ l # None

\* Queue.get as called by op (get itself, or get_wait at its return).
get_body(op, arg) ==
    /\ Len(getLog) < MaxLog
    /\ IF get_loop(mode, loaded)
       THEN /\ ret' = Ret(op, arg, loaded, None)
            /\ getLog' = Append(getLog, loaded)
            /\ UNCHANGED <<items, history, loaded, putLog>>
       ELSE LET r == refill(items, history, mode)
                its == r[1]
            IN /\ history' = r[2]
               /\ putLog' = IF its = items THEN putLog ELSE putLog \o its
               /\ IF its = <<>>
                  THEN /\ ret' = Ret(op, arg, None, "QueueEmpty")
                       /\ items' = its
                       /\ UNCHANGED <<loaded, getLog>>
                  ELSE /\ items' = after_pop0(its)
                       /\ loaded' = pop0(its)
                       /\ getLog' = Append(getLog, pop0(its))
                       /\ ret' = Ret(op, arg, pop0(its), None)

get ==
    /\ get_body("get", None)
    /\ UNCHANGED <<mode, wvars>>
    /\ UNCHANGED xq

\* Queue.get_wait, from the call to its first await or its return.
NextTicket == 1 + Cardinality({c \in Callers : ticket[c] # 0})

register(c) ==
    /\ waiters' = Append(waiters, c)
    /\ fut' = [fut EXCEPT ![c] = "pending"]
    /\ ticket' = [ticket EXCEPT ![c] = IF @ = 0 THEN NextTicket ELSE @]

get_wait(c) ==
    /\ pc[c] = "idle"
    /\ IF items = <<>>
       THEN /\ register(c)
            /\ pc' = [pc EXCEPT ![c] = "waiting"]
            /\ ret' = Ret("get_wait", c, None, "suspended")
            /\ UNCHANGED <<items, history, loaded, ready, got, lvars>>
       ELSE /\ get_body("get_wait", c)
            /\ pc' = [pc EXCEPT ![c] = "done"]
            /\ got' = [got EXCEPT ![c] = ret'.val]
            /\ UNCHANGED <<waiters, fut, ready, ticket>>
    /\ UNCHANGED mode
    /\ UNCHANGED xq

\* Queue.get_wait resumed by the event loop after its waiter was given a
\* result: the loop condition is evaluated again.
get_wait_resume(c) ==
    /\ ready # <<>>
    /\ Head(ready) = c
    /\ pc[c] = "waiting"
    /\ fut[c] = "done"
    /\ IF items = <<>>
       THEN /\ register(c)
            /\ ready' = Tail(ready)
            /\ ret' = Ret("get_wait", c, None, "suspended")
            /\ UNCHANGED <<items, history, loaded, pc, got, lvars>>
       ELSE /\ get_body("get_wait", c)
            /\ ready' = Tail(ready)
            /\ fut' = [fut EXCEPT ![c] = "none"]
            /\ pc' = [pc EXCEPT ![c] = "done"]
            /\ got' = [got EXCEPT ![c] = ret'.val]
            /\ UNCHANGED <<waiters, ticket>>
    /\ UNCHANGED mode
    /\ UNCHANGED xq

\* Task.cancel() of a task suspended in get_wait: a pending waiter is
\* cancelled and its task scheduled; a waiter that already has its result
\* stays done and the task, already scheduled, is marked to be cancelled.
cancel(c) ==
    /\ pc[c] = "waiting"
    /\ IF fut[c] = "pending"
       THEN /\ fut' = [fut EXCEPT ![c] = "cancelled"]
            /\ ready' = Append(ready, c)
       ELSE UNCHANGED <<fut, ready>>
    /\ pc' = [pc EXCEPT ![c] = "cancelling"]
    /\ ret' = Ret("cancel", c, None, None)
    /\ UNCHANGED <<qvars, waiters, got, ticket, lvars>>
    /\ UNCHANGED xq

\* Queue.get_wait, line 314: `if self and not waiter.cancelled()`.
passes_wake_never(c) == items # <<>> /\ fut[c] = "pending"

passes_wake(c) == items # <<>> /\ fut[c] # "cancelled"

\* Queue.get_wait, lines 306-316: the task resumed with CancelledError at
\* `await waiter`.
get_wait_cancelled(c) ==
    /\ ready # <<>>
    /\ Head(ready) = c
    /\ pc[c] = "cancelling"
    /\ LET rest == SelectSeq(waiters, LAMBDA w : w # c)
           s == SkipDone(rest, fut)
       IN  IF passes_wake(c) /\ s # <<>>
           THEN /\ waiters' = Tail(s)
                /\ fut' = [fut EXCEPT ![Head(s)] = "done"]
                /\ ready' = Append(Tail(ready), Head(s))
           ELSE /\ waiters' = IF passes_wake(c) THEN <<>> ELSE rest
                /\ fut' = fut
                /\ ready' = Tail(ready)
    /\ pc' = [pc EXCEPT ![c] = "cancelled"]
    /\ ret' = Ret("get_wait", c, None, "CancelledError")
    /\ UNCHANGED <<qvars, got, ticket, lvars>>
    /\ UNCHANGED xq

\* ---------------------------------------------------------------------
\* Queue.put_wait under Queue._lock.

\* Queue.__init__, line 73, and no put_wait call made.
PwIdle == [pc |-> "idle", rest |-> <<>>, kind |-> "many", atomic |-> TRUE, added |-> 0]

InitLock ==
    /\ lock = None
    /\ lock_waiters = <<>>
    /\ pw = [c \in Callers |-> PwIdle]
    /\ putter = <<>>
    /\ acquired = <<>>

\* The player whose voice handshake is followed, and the keys of its voice
\* state.
G == "g1"

VoiceKeys == {"session_id", "token", "endpoint"}

\* No _disconnected_wait task is suspended.
NoWait == [waiting |-> 0, woken |-> 0]

\* Player.__init__, lines 98, 111-112 and 142-148.
InitVoice ==
    /\ _connected = FALSE
    /\ voice_state = [k \in VoiceKeys |-> FALSE]
    /\ connection_event = FALSE
    /\ reconnecting = TRUE
    /\ attached = FALSE
    /\ vpc = "new"
    /\ dwait = NoWait
    /\ itask = FALSE
    /\ dispatched = FALSE
    /\ vreq = <<>>
    /\ discards = 0

\* Player.__init__, line 134: the lock of the recommendation runs; no run
\* and no countdown yet.
InitRuns ==
    /\ auto_lock = None
    /\ auto_waiters = <<>>
    /\ rec = [c \in Callers |-> "idle"]
    /\ superseded = 0
    /\ inactive_sent = 0

InitLater == InitLock /\ InitVoice /\ InitRuns

\* `async with self._lock` left, with acq the tasks that acquired the lock so
\* far: asyncio.Lock.release hands the lock to the first task waiting for it.
release(acq) ==
    IF lock_waiters = <<>>
    THEN /\ lock' = None
         /\ lock_waiters' = lock_waiters
         /\ acquired' = acq
    ELSE /\ lock' = Head(lock_waiters)
         /\ lock_waiters' = Tail(lock_waiters)
         /\ acquired' = Append(acq, Head(lock_waiters))

\* The lock stays with the task c across an await.
holds(c, acq) ==
    /\ lock' = c
    /\ lock_waiters' = lock_waiters
    /\ acquired' = acq

\* Lines 403-405 and 410-412: one object checked and appended, then
\* asyncio.sleep(0) with the lock held.
put_wait_one(c, track, rest, kind, atomic, added) ==
    /\ IF _check_compatibility(track)
       THEN /\ items' = Append(items, track)
            /\ putLog' = Append(putLog, track)
            /\ putter' = Append(putter, c)
            /\ pw' = [pw EXCEPT ![c] = [pc |-> "inserting", rest |-> rest, kind |-> kind,
                                        atomic |-> atomic, added |-> added + 1]]
       ELSE /\ UNCHANGED <<items, putLog, putter>>
            /\ pw' = [pw EXCEPT ![c] = [pc |-> "inserting", rest |-> rest, kind |-> kind,
                                        atomic |-> atomic, added |-> added]]
    /\ ret' = Ret("put_wait", c, added, "suspended")
    /\ UNCHANGED <<waiters, fut, ready>>

\* Lines 388-415: put_wait from the lock acquired by c to its first await,
\* its return or its exception.
put_wait_body(c, rest, kind, atomic, acq) ==
    IF kind = "many" /\ atomic
    THEN IF _check_atomic(rest)
         THEN /\ items' = items \o rest
              /\ putLog' = putLog \o rest
              /\ putter' = putter \o [i \in 1..Len(rest) |-> c]
              /\ _wakeup_next
              /\ release(acq)
              /\ pw' = [pw EXCEPT ![c] = [PwIdle EXCEPT !.pc = "done", !.added = Len(rest)]]
              /\ ret' = Ret("put_wait", c, Len(rest), None)
         ELSE /\ release(acq)
              /\ pw' = [pw EXCEPT ![c] = [PwIdle EXCEPT !.pc = "done"]]
              /\ ret' = Ret("put_wait", c, 0, "TypeError")
              /\ UNCHANGED <<items, putLog, putter, waiters, fut, ready>>
    ELSE IF kind = "many"
    THEN IF rest = <<>>
         THEN /\ release(acq)
              /\ _wakeup_next
              /\ pw' = [pw EXCEPT ![c] = [PwIdle EXCEPT !.pc = "done"]]
              /\ ret' = Ret("put_wait", c, 0, None)
              /\ UNCHANGED <<items, putLog, putter>>
         ELSE /\ put_wait_one(c, Head(rest), Tail(rest), kind, atomic, 0)
              /\ holds(c, acq)
    ELSE IF _check_compatibility(Head(rest))
         THEN /\ put_wait_one(c, Head(rest), <<>>, kind, atomic, 0)
              /\ holds(c, acq)
         ELSE /\ release(acq)
              /\ pw' = [pw EXCEPT ![c] = [PwIdle EXCEPT !.pc = "done"]]
              /\ ret' = Ret("put_wait", c, 0, "TypeError")
              /\ UNCHANGED <<items, putLog, putter, waiters, fut, ready>>

\* asyncio.Lock.locked, as acquire tests it.
locked_never == FALSE

locked == lock # None

\* Queue.put_wait called by the task c: with the lock free the body starts
\* at once, otherwise the task waits for the lock.
put_wait(c, item, atomic) ==
    /\ pw[c].pc = "idle"
    /\ LET rest == IF item.kind = "many" THEN item.v ELSE <<item.v>> IN
       IF ~locked
       THEN put_wait_body(c, rest, item.kind, atomic, Append(acquired, c))
       ELSE /\ lock_waiters' = Append(lock_waiters, c)
            /\ pw' = [pw EXCEPT ![c] = [pc |-> "locking", rest |-> rest, kind |-> item.kind,
                                        atomic |-> atomic, added |-> 0]]
            /\ ret' = Ret("put_wait", c, 0, "suspended")
            /\ UNCHANGED <<lock, acquired, items, putLog, putter, waiters, fut, ready>>
    /\ UNCHANGED <<history, mode, loaded, pc, got, ticket, getLog, base, hvars, rvars>>

\* The task c resumed with the lock handed to it.
put_wait_acquired(c) ==
    /\ pw[c].pc = "locking"
    /\ lock = c
    /\ put_wait_body(c, pw[c].rest, pw[c].kind, pw[c].atomic, acquired)
    /\ UNCHANGED <<history, mode, loaded, pc, got, ticket, getLog, base, hvars, rvars>>

\* The task c resumed after asyncio.sleep(0): the next object of the
\* collection, or the end of the `async with` block and lines 414-415.
put_wait_resume(c) ==
    /\ pw[c].pc = "inserting"
    /\ IF pw[c].rest = <<>>
       THEN /\ release(acquired)
            /\ _wakeup_next
            /\ pw' = [pw EXCEPT ![c] = [PwIdle EXCEPT !.pc = "done", !.added = pw[c].added]]
            /\ ret' = Ret("put_wait", c, pw[c].added, None)
            /\ UNCHANGED <<items, putLog, putter>>
       ELSE /\ put_wait_one(c, Head(pw[c].rest), Tail(pw[c].rest), pw[c].kind, pw[c].atomic,
                            pw[c].added)
            /\ UNCHANGED <<lock, lock_waiters, acquired>>
    /\ UNCHANGED <<history, mode, loaded, pc, got, ticket, getLog, base, hvars, rvars>>

\* The mode setter.  A new mode starts a new segment of the logs: what is in
\* items counts as put, in this order.
set_mode(value) ==
    /\ mode # value
    /\ mode' = value
    /\ putLog' = items
    /\ getLog' = <<>>
    /\ ret' = Ret("mode", value, None, None)
    /\ UNCHANGED <<items, history, loaded, wvars>>
    /\ UNCHANGED xq

\* Player.play, on success with add_history, of the track the last get returned:
\* self.queue.history.put(track).
history_put ==
    /\ ret.op = "get"
    /\ ret.exc = None
    /\ Len(history) < MaxItems
    /\ history' = Append(history, ret.val)
    /\ ret' = Ret("history_put", ret.val, None, None)
    /\ UNCHANGED <<items, mode, loaded, wvars, lvars>>
    /\ UNCHANGED xq

InitQueue ==
    /\ items = <<>>
    /\ history = <<>>
    /\ mode = "normal"
    /\ loaded = None
    /\ waiters = <<>>
    /\ fut = [c \in Callers |-> "none"]
    /\ ready = <<>>
    /\ pc = [c \in Callers |-> "idle"]
    /\ got = [c \in Callers |-> None]
    /\ ticket = [c \in Callers |-> 0]
    /\ putLog = <<>>
    /\ getLog = <<>>
    /\ ret = Ret("init", None, None, None)

\* The arguments of the playback commands. An optional argument is a
\* sequence: empty when the caller left it out.
VolumeArgs == {<<>>, <<0>>, <<1500>>}
VolumeValues == {-5, 50, 1500}
PausedArgs == {<<>>, <<TRUE>>, <<FALSE>>}
FiltersArgs == {None, "f1"}
\* How the node answers a player update: 200, an error with a JSON body,
\* or an error without one.
Outcomes == {"ok", "LavalinkException", "NodeException"}

\* Player.play, line 942: volume or self._volume.
play_vol(varg) == IF varg = <<>> THEN volume ELSE IF varg[1] = 0 THEN volume ELSE varg[1]

\* Player.play, lines 947-952: the current track it stages.
play_current(track, replace) == IF replace \/ current = None THEN track ELSE current

\* Player.play, lines 941-983: everything before the populate step.
play_body(track, replace, varg, parg, farg, add_history, outcome) ==
    LET original_vol == volume
        vol == play_vol(varg)
        cur == play_current(track, replace)
        old_previous == previous
        pause == IF parg = <<>> THEN paused ELSE parg[1]
    IN /\ (outcome = "ok" /\ add_history) => Len(history) < MaxItems
       /\ filters' = IF farg # None THEN farg ELSE filters
       /\ IF outcome = "LavalinkException"
          THEN /\ loaded' = old_previous
               /\ current' = None
               /\ original' = None
               /\ previous' = old_previous
               /\ volume' = original_vol
               /\ UNCHANGED <<paused, history>>
          ELSE /\ volume' = vol
               /\ current' = cur
               /\ original' = IF replace \/ current = None THEN track ELSE original
               /\ previous' = cur
               /\ loaded' = track
               /\ IF outcome = "ok"
                  THEN /\ paused' = pause
                       /\ history' = IF add_history THEN Append(history, track) ELSE history
                  ELSE UNCHANGED <<paused, history>>

\* Player.play with populate=False.
play(track, replace, varg, parg, farg, add_history, outcome) ==
    /\ play_body(track, replace, varg, parg, farg, add_history, outcome)
    /\ ret' = IF outcome = "ok" THEN Ret("play", track, track, None)
              ELSE Ret("play", track, None, outcome)
    /\ UNCHANGED <<items, mode, wvars, lvars, avars, xp>>

\* Player.set_volume.
set_volume(value, outcome) ==
    LET lo == IF value < 1000 THEN value ELSE 1000
        vol == IF lo > 0 THEN lo ELSE 0
    IN /\ IF outcome = "ok"
          THEN /\ volume' = vol
               /\ ret' = Ret("set_volume", value, None, None)
          ELSE /\ UNCHANGED volume
               /\ ret' = Ret("set_volume", value, None, outcome)
       /\ UNCHANGED <<current, original, previous, paused, filters, qvars, wvars, lvars, avars, xp>>

\* Player.skip.
skip(force, outcome) ==
    /\ loaded' = IF force THEN None ELSE loaded
    /\ ret' = Ret("skip", force, IF outcome = "ok" THEN current ELSE None,
                  IF outcome = "ok" THEN None ELSE outcome)
    /\ UNCHANGED <<pvars, items, history, mode, wvars, lvars, avars, xp>>

\* The nodes, the guilds that can own a player, and the largest player
\* count a stats message reports.
Nodes == {"n1", "n2", "n3"}
Guilds == {"g1", "g2"}
MaxCount == 1
NodeStatuses == {"DISCONNECTED", "CONNECTING", "CONNECTED"}
Counts == {<<>>} \cup {<<k>> : k \in 0..MaxCount}

\* Pool.get_node, line 831: the sort key, n._total_player_count or len(n.players).
node_key(n) ==
    IF total[n] = <<>> THEN Cardinality(players[n])
    ELSE IF total[n][1] = 0 THEN Cardinality(players[n]) ELSE total[n][1]

\* Pool.get_node, line 827: the CONNECTED nodes in registry order.
connected_nodes == SelectSeq(pool, LAMBDA n : nstatus[n] = "CONNECTED")

\* sorted(nodes, key=...)[0]: the sort is stable.
sorted_first(c) ==
    c[CHOOSE i \in 1..Len(c) :
        /\ \A j \in 1..Len(c) : node_key(c[i]) <= node_key(c[j])
        /\ \A j \in 1..(i-1) : node_key(c[j]) > node_key(c[i])]

\* Pool.get_node.
get_node(identifier) ==
    /\ IF identifier # None
       THEN IF identifier \notin {pool[i] : i \in DOMAIN pool}
            THEN ret' = Ret("get_node", identifier, None, "InvalidNodeException")
            ELSE ret' = Ret("get_node", identifier, identifier, None)
       ELSE IF connected_nodes = <<>>
            THEN ret' = Ret("get_node", identifier, None, "InvalidNodeException")
            ELSE ret' = Ret("get_node", identifier, sorted_first(connected_nodes), None)
    /\ UNCHANGED <<nvars, xn>>

\* Node.__init__ and the empty Pool.
InitNode ==
    /\ pool = <<>>
    /\ nstatus = [n \in Nodes |-> "DISCONNECTED"]
    /\ total = [n \in Nodes |-> <<>>]
    /\ players = [n \in Nodes |-> {}]

\* Player.__init__: the playback fields.
DefaultVolume == 100

InitPlayer ==
    /\ current = None
    /\ original = None
    /\ previous = None
    /\ volume = DefaultVolume
    /\ paused = FALSE
    /\ filters = "f0"

\* Helpers on numbers and sequences.
Min(x, y) == IF x < y THEN x ELSE y
Max(x, y) == IF x > y THEN x ELSE y
Range(s) == {s[i] : i \in DOMAIN s}

\* The node whose websocket is followed, and the session ids Lavalink issues.
WsNode == "n1"
SessionIds == {"s1", "s2"}
RetriesArgs == {<<>>, <<0>>, <<1>>, <<2>>}

\* Backoff.__init__: base, maximum_time, maximum_tries.
BackoffBase == 1
MaximumTime == 30
MaximumTries == 5
\* The methods class Backoff defines.
BackoffMethods == {"__init__", "calculate"}

\* The most calculate() calls followed on one Backoff.
MaxCalls == 6

\* Backoff.calculate, drawing whole seconds: the upper end of the draw, and
\* the delay and the new state for a draw.
calculate_high == (b_base * 2) * Min(b_retries * b_retries, b_maximum_time)

\* Line 41-42: a draw that does not exceed the last delay is replaced.
calculate_wait_keeps(draw) == IF draw <= b_last_wait THEN b_last_wait * 3 ELSE draw

calculate_wait(draw) == IF draw <= b_last_wait THEN b_last_wait * 2 ELSE draw

\* Line 51: self._maximum_tries and self._retries >= self._maximum_tries.
calculate_tries_late(retries1) ==
    b_maximum_tries # <<>> /\ b_maximum_tries # <<0>> /\ retries1 > b_maximum_tries[1]

calculate_tries(retries1) ==
    b_maximum_tries # <<>> /\ b_maximum_tries # <<0>> /\ retries1 >= b_maximum_tries[1]

calculate(draw) ==
    LET wait1 == calculate_wait(draw)
        over == wait1 > b_maximum_time
        retries1 == IF over THEN 0 ELSE b_retries
        last1 == IF over THEN 0 ELSE wait1
        tries == calculate_tries(retries1)
    IN [wait |-> IF over THEN b_maximum_time ELSE wait1,
        retries |-> (IF tries THEN 0 ELSE retries1) + 1,
        last_wait |-> IF tries THEN 0 ELSE last1]

\* One call of Backoff.calculate on a Backoff of any configuration.
Backoff_calculate ==
    /\ b_calls < MaxCalls
    /\ \E draw \in 0..calculate_high :
        /\ b_retries' = calculate(draw).retries
        /\ b_last_wait' = calculate(draw).last_wait
        /\ b_calls' = b_calls + 1
        /\ ret' = Ret("calculate", <<b_retries, draw>>, calculate(draw).wait, None)
    /\ UNCHANGED <<nvars, session_id, websocket, client, node_retries, bcfg, socket, keep_alive,
                   wpc, caller, retries, attempts, ready_sid, emitted>>
    /\ UNCHANGED xs

\* Backoff(): the configuration Websocket.__init__ creates it with.
Backoff_defaults ==
    /\ b_base = BackoffBase
    /\ b_maximum_time = MaximumTime
    /\ b_maximum_tries = <<MaximumTries>>

\* Websocket.cleanup, apart from the dispatch.
cleanup_connecting ==
    /\ keep_alive' = IF keep_alive = "running" THEN "cancelled" ELSE keep_alive
    /\ socket' = IF socket = "none" THEN "none" ELSE "closed"
    /\ nstatus' = nstatus
    /\ session_id' = None
    /\ players' = [players EXCEPT ![WsNode] = {}]
    /\ websocket' = FALSE

cleanup ==
    /\ keep_alive' = IF keep_alive = "running" THEN "cancelled" ELSE keep_alive
    /\ socket' = IF socket = "none" THEN "none" ELSE "closed"
    /\ nstatus' = [nstatus EXCEPT ![WsNode] = "DISCONNECTED"]
    /\ session_id' = None
    /\ players' = [players EXCEPT ![WsNode] = {}]
    /\ websocket' = FALSE

\* How the caller of Websocket.connect goes on when connect returns (exc is
\* None) or raises exc: Pool.connect, lines 741-752, Pool.reconnect, 766-777.
Caught == {"InvalidClientException", "AuthorizationFailedException", "NodeException"}

finish(arg, exc) ==
    /\ wpc' = IF exc = None THEN "done" ELSE "raised"
    /\ pool' = IF caller = "Pool.connect" /\ exc = None /\ WsNode \notin Range(pool)
               THEN Append(pool, WsNode) ELSE pool
    /\ ret' = IF exc = None \/ exc \in Caught
              THEN Ret(caller, arg, exc, None)
              ELSE Ret(caller, arg, exc, exc)

\* The most attempts of one Websocket.connect that are counted.
MaxAttempts == 4

\* Websocket.connect, lines 138-154: the end of a failed attempt.
retry_path ==
    IF retries = <<0>>
    THEN /\ cleanup
         /\ emitted' = <<"node_disconnected">>
         /\ finish("exhausted", None)
         /\ UNCHANGED <<client, node_retries, bcfg, caller, retries, b_retries, b_last_wait, b_calls, total>>
    ELSE \E draw \in 0..calculate_high :
         /\ retries' = IF retries # <<>> THEN <<retries[1] - 1>> ELSE retries
         /\ b_retries' = calculate(draw).retries
         /\ b_last_wait' = calculate(draw).last_wait
         /\ b_calls' = Min(b_calls + 1, MaxCalls)
         /\ wpc' = "sleep"
         /\ emitted' = <<>>
         /\ ret' = Ret("connect", "retry", calculate(draw).wait, None)
         /\ UNCHANGED <<nvars, session_id, websocket, client, node_retries, bcfg, socket, keep_alive, caller>>

\* Node._connect followed by Websocket.connect up to its first await,
\* lines 68-91, for the caller that awaits it.
_connect(by, client_arg) ==
    IF ~(client \/ client_arg)
    THEN /\ ret' = Ret(by, "InvalidClientException", None, None)
         /\ emitted' = <<>>
         /\ UNCHANGED <<nvars, session_id, websocket, client, node_retries, bcfg, socket, keep_alive,
                        wpc, caller, retries, b_retries, b_last_wait, b_calls, attempts, ready_sid>>
    ELSE /\ client' = TRUE
         /\ websocket' = TRUE
         /\ socket' = "none"
         /\ keep_alive' = "none"
         /\ b_retries' = 1
         /\ b_last_wait' = 0
         /\ b_calls' = 0
         /\ attempts' = 0
         /\ emitted' = IF nstatus[WsNode] = "CONNECTED" THEN <<"node_disconnected">> ELSE <<>>
         /\ nstatus' = [nstatus EXCEPT ![WsNode] = "CONNECTING"]
         /\ retries' = node_retries
         /\ caller' = by
         /\ wpc' = "ws_connect"
         /\ ret' = Ret(by, "connecting", None, None)
         /\ UNCHANGED <<pool, total, players, session_id, node_retries, bcfg, ready_sid>>

\* Pool.connect with the one node, up to the first await.
Pool_connect(client_arg) ==
    /\ wpc \in {"idle", "done", "raised"}
    /\ IF WsNode \in Range(pool) \/ nstatus[WsNode] \in {"CONNECTING", "CONNECTED"}
       THEN /\ ret' = Ret("Pool.connect", "skipped", None, None)
            /\ emitted' = <<>>
            /\ UNCHANGED <<nvars, session_id, websocket, client, node_retries, bcfg, socket, keep_alive,
                           wpc, caller, retries, b_retries, b_last_wait, b_calls, attempts, ready_sid>>
       ELSE _connect("Pool.connect", client_arg)
    /\ UNCHANGED xs

\* Pool.reconnect, up to the first await.
Pool_reconnect ==
    /\ wpc \in {"idle", "done", "raised"}
    /\ IF WsNode \notin Range(pool) \/ nstatus[WsNode] # "DISCONNECTED"
       THEN /\ ret' = Ret("Pool.reconnect", "skipped", None, None)
            /\ emitted' = <<>>
            /\ UNCHANGED <<nvars, session_id, websocket, client, node_retries, bcfg, socket, keep_alive,
                           wpc, caller, retries, b_retries, b_last_wait, b_calls, attempts, ready_sid>>
       ELSE _connect("Pool.reconnect", FALSE)
    /\ UNCHANGED xs

\* Websocket.connect resumed from session.ws_connect, lines 91-107.
ws_connect(result) ==
    /\ wpc = "ws_connect"
    /\ IF result \in {"401", "404"}
       THEN /\ cleanup
            /\ emitted' = <<"node_disconnected">>
            /\ finish(result, IF result = "401" THEN "AuthorizationFailedException" ELSE "NodeException")
            /\ UNCHANGED <<client, node_retries, bcfg, caller, retries, b_retries, b_last_wait, b_calls, total>>
       ELSE IF result = "ok" \/ socket = "open"
       THEN /\ socket' = "open"
            /\ wpc' = "receive"
            /\ emitted' = <<>>
            /\ ret' = Ret("connect", result, None, None)
            /\ UNCHANGED <<nvars, session_id, websocket, client, node_retries, bcfg, keep_alive, caller,
                           retries, b_retries, b_last_wait, b_calls>>
       ELSE retry_path
    /\ attempts' = Min(attempts + 1, MaxAttempts)
    /\ UNCHANGED <<ready_sid, xs>>

\* Websocket.connect resumed from socket.receive, lines 110-135. update is
\* the outcome of the requests of _update_node.
ws_receive(message, sid, update) ==
    /\ wpc = "receive"
    /\ IF message \in {"exception", "non_text"}
       THEN /\ cleanup
            /\ emitted' = <<"node_disconnected">>
            /\ wpc' = "ws_connect"
            /\ ret' = Ret("receive", message, None, None)
            /\ UNCHANGED <<pool, total, client, node_retries, bcfg, caller, retries, b_retries, b_last_wait, b_calls>>
       ELSE IF message = "bad_text"
       THEN /\ emitted' = <<>>
            /\ finish(message, "ValueError")
            /\ UNCHANGED <<nstatus, total, players, session_id, websocket, client, node_retries, bcfg,
                           socket, keep_alive, caller, retries, b_retries, b_last_wait, b_calls>>
       ELSE IF message = "ready"
       THEN /\ session_id' = sid
            /\ nstatus' = [nstatus EXCEPT ![WsNode] = "CONNECTED"]
            /\ IF "reset" \notin BackoffMethods
               THEN /\ emitted' = <<>>
                    /\ finish("ready", "AttributeError")
                    /\ UNCHANGED <<keep_alive, b_retries, b_last_wait, b_calls>>
               ELSE /\ b_retries' = 1
                    /\ b_last_wait' = 0
                    /\ b_calls' = 0
                    /\ IF update = "ok"
                       THEN /\ emitted' = <<"node_ready">>
                            /\ keep_alive' = "running"
                            /\ finish("ready", None)
                       ELSE /\ emitted' = <<>>
                            /\ finish("ready", update)
                            /\ UNCHANGED keep_alive
            /\ UNCHANGED <<total, players, websocket, client, node_retries, bcfg, socket, caller, retries>>
       ELSE retry_path
    /\ ready_sid' = IF message = "ready" THEN sid ELSE ready_sid
    /\ UNCHANGED <<attempts, xs>>

\* Node.close(eject), lines 250-291, for the node that is followed.
close_keeps_session(eject) ==
    /\ IF websocket
       THEN cleanup
       ELSE /\ nstatus' = [nstatus EXCEPT ![WsNode] = "DISCONNECTED"]
            /\ session_id' = session_id
            /\ players' = [players EXCEPT ![WsNode] = {}]
            /\ UNCHANGED <<keep_alive, socket, websocket>>
    /\ pool' = IF eject THEN SelectSeq(pool, LAMBDA n : n # WsNode) ELSE pool
    /\ emitted' = (IF websocket THEN <<"node_disconnected">> ELSE <<>>)
                      \o (IF client THEN <<"node_closed">> ELSE <<>>)
    /\ ret' = Ret("close", IF eject THEN "eject" ELSE "keep", None, None)
    /\ UNCHANGED <<total, client, node_retries, bcfg, wpc, caller, retries, b_retries,
                   b_last_wait, b_calls, attempts, ready_sid, xs>>

close(eject) ==
    /\ IF websocket
       THEN cleanup
       ELSE /\ nstatus' = [nstatus EXCEPT ![WsNode] = "DISCONNECTED"]
            /\ session_id' = None
            /\ players' = [players EXCEPT ![WsNode] = {}]
            /\ UNCHANGED <<keep_alive, socket, websocket>>
    /\ pool' = IF eject THEN SelectSeq(pool, LAMBDA n : n # WsNode) ELSE pool
    /\ emitted' = (IF websocket THEN <<"node_disconnected">> ELSE <<>>)
                      \o (IF client THEN <<"node_closed">> ELSE <<>>)
    /\ ret' = Ret("close", IF eject THEN "eject" ELSE "keep", None, None)
    /\ UNCHANGED <<total, client, node_retries, bcfg, wpc, caller, retries, b_retries,
                   b_last_wait, b_calls, attempts, ready_sid, xs>>

\* Websocket.connect resumed from asyncio.sleep(delay), line 154.
ws_sleep ==
    /\ wpc = "sleep"
    /\ wpc' = "ws_connect"
    /\ emitted' = <<>>
    /\ ret' = Ret("connect", "slept", None, None)
    /\ UNCHANGED <<nvars, session_id, websocket, client, node_retries, bcfg, socket, keep_alive, caller,
                   retries, b_retries, b_last_wait, b_calls, attempts, ready_sid>>
    /\ UNCHANGED xs

\* Websocket.__init__ and the node's connection fields; retries is the
\* argument the node was created with.
InitWs ==
    /\ session_id = None
    /\ websocket = FALSE
    /\ client = FALSE
    /\ socket = "none"
    /\ keep_alive = "none"
    /\ wpc = "idle"
    /\ caller = None
    /\ retries = <<>>
    /\ b_retries = 1
    /\ b_last_wait = 0
    /\ b_calls = 0
    /\ attempts = 0
    /\ ready_sid = None
    /\ emitted = <<>>

\* Player.__init__, lines 126-128.
AutoCutoff == 20
AutoWeight == 3
PreviousSeedsCutoff == AutoCutoff * AutoWeight

\* The recommendation step of AutoPlay. The bounds on the recommendation
\* runs and on the pending inactivity countdowns.
MaxRuns == 2
MaxTimers == 1
MaxFound == 1
AutoPlayModes == {"enabled", "partial", "disabled"}
MaxPopulateArgs == {<<>>, <<1>>}

\* Playable.source and Playable.identifier of the tracks.
source(t) == IF t = "a" THEN "spotify" ELSE "youtube"

Occ(s, x) == Cardinality({i \in DOMAIN s : s[i] = x})
Reverse(s) == [i \in 1..Len(s) |-> s[Len(s) + 1 - i]]
\* s[:n] and s[:-n-1:-1].
FirstN(s, n) == SubSeq(s, 1, Min(n, Len(s)))
LastNReversed(s, n) == FirstN(Reverse(s), n)

\* random.shuffle: every arrangement of the same elements.
Shuffles(s) == {q \in [1..Len(s) -> Range(s)] : \A x \in Range(s) : Occ(q, x) = Occ(s, x)}

\* Player._inactivity_start, with an inactivity wait configured.
_inactivity_start ==
    /\ timers < MaxTimers
    /\ timers' = timers + 1

\* Player._add_to_previous_seeds, for each seed of a list in turn.
_add_to_previous_seeds(pseeds, seed) ==
    IF Len(pseeds) >= PreviousSeedsCutoff
    THEN Append(Tail(pseeds), seed)
    ELSE Append(pseeds, seed)

RECURSIVE add_seeds(_, _)
add_seeds(pseeds, seeds) ==
    IF seeds = <<>> THEN pseeds
    ELSE add_seeds(_add_to_previous_seeds(pseeds, Head(seeds)), Tail(seeds))

\* Player._do_recommendation, lines 312-318: the candidate seeds.
seed_choices(hist, cur, prev) ==
    FirstN(Reverse(hist), Max(5, 5 * AutoWeight))
        \o FirstN(auto_items, Max(3, (5 * AutoWeight) \div 3))
        \o <<cur, prev>>

seed_filter(ch) == SelectSeq(ch, LAMBDA t : t # None /\ t \notin Range(previous_seeds))

\* Lines 339-350: the newest history entries are put in front of the seeds.
RECURSIVE reinforce(_, _, _, _, _, _)
reinforce(i, n, changed_history, spotify, youtube, added) ==
    IF i > n THEN [spotify |-> spotify, youtube |-> youtube, exc |-> None]
    ELSE LET track == changed_history[i] IN
         IF added = 2 /\ source(track) = "spotify"
         THEN [spotify |-> spotify, youtube |-> youtube, exc |-> None]
         ELSE IF source(track) = "spotify"
         THEN reinforce(i + 1, n, changed_history, <<track>> \o spotify, youtube, added + 1)
         ELSE IF source(track) = "youtube"
         THEN IF youtube = <<>>
              THEN [spotify |-> spotify, youtube |-> youtube, exc |-> "IndexError"]
              ELSE reinforce(i + 1, n, changed_history, spotify, [youtube EXCEPT ![1] = track], added)
         ELSE reinforce(i + 1, n, changed_history, spotify, youtube, added)

\* Player._do_recommendation, called by op. hist, cur and prev are the
\* history, current and previous track it reads; found is what the two
\* searches return and outcome the answer to the play request it may issue.
_do_recommendation(op, arg, val, populate_track, max_population, hist, cur, prev, found, outcome) ==
    LET max_population_ == IF max_population = <<>> THEN AutoCutoff ELSE max_population[1]
        no_play == IF populate_track = None THEN UNCHANGED <<pvars, loaded, history>> ELSE TRUE
        play_ret == IF outcome = "ok" THEN Ret(op, arg, val, None) ELSE Ret(op, arg, None, outcome)
    IN
    IF Len(auto_items) > AutoCutoff + 1 /\ populate_track = None
    THEN /\ _inactivity_start
         /\ auto_items' = Tail(auto_items)
         /\ auto_history' = Append(auto_history, Head(auto_items))
         /\ play_body(Head(auto_items), TRUE, <<>>, <<>>, None, FALSE, outcome)
         /\ ret' = play_ret
         /\ UNCHANGED <<previous_seeds, history_count, query, runs, autoplay>>
    ELSE \E shuffled \in Shuffles(seed_filter(seed_choices(hist, cur, prev))) :
         LET seeds == IF populate_track # None THEN <<populate_track>> \o shuffled ELSE shuffled
             count == Len(hist)
             changed_by == IF history_count = <<>> THEN Min(3, count) ELSE count - history_count[1]
             r == reinforce(1, Min(changed_by, 3), Reverse(hist),
                            SelectSeq(seeds, LAMBDA t : source(t) = "spotify"),
                            SelectSeq(seeds, LAMBDA t : source(t) = "youtube"), 0)
             spotify_seeds == FirstN(r.spotify, 3)
             ytm_seed == FirstN(r.youtube, 1)
             filtered_r == IF spotify_seeds = <<>> /\ ytm_seed = <<>> THEN <<>> ELSE found
             known == Range(FirstN(auto_items, 40)) \cup Range(FirstN(items, 40))
                        \cup Range(LastNReversed(hist, 40)) \cup Range(LastNReversed(auto_history, 60))
         IN /\ history_count' = IF changed_by > 0 THEN <<count>> ELSE history_count
            /\ UNCHANGED autoplay
            /\ IF r.exc # None
               THEN /\ ret' = Ret(op, arg, None, r.exc)
                    /\ no_play
                    /\ UNCHANGED <<auto_items, auto_history, previous_seeds, timers, query, runs>>
               ELSE /\ runs < MaxRuns
                    /\ runs' = runs + 1
                    /\ previous_seeds' = add_seeds(add_seeds(previous_seeds, spotify_seeds), ytm_seed)
                    /\ query' = [spotify |-> spotify_seeds, youtube |-> ytm_seed]
                    /\ IF filtered_r = <<>> /\ auto_items = <<>>
                       THEN /\ _inactivity_start
                            /\ ret' = Ret(op, arg, val, None)
                            /\ no_play
                            /\ UNCHANGED <<auto_items, auto_history>>
                       ELSE \E results \in Shuffles(filtered_r) :
                            LET passing == SelectSeq(results, LAMBDA t : t \notin known)
                                queued == auto_items \o FirstN(passing, max_population_)
                            IN IF cur = None /\ populate_track = None
                               THEN IF queued = <<>>
                                    THEN /\ _inactivity_start
                                         /\ ret' = Ret(op, arg, val, None)
                                         /\ no_play
                                         /\ UNCHANGED <<auto_items, auto_history>>
                                    ELSE /\ Len(Tail(queued)) <= MaxItems
                                         /\ Len(auto_history) < MaxItems
                                         /\ auto_items' = Tail(queued)
                                         /\ auto_history' = Append(auto_history, Head(queued))
                                         /\ play_body(Head(queued), TRUE, <<>>, <<>>, None, FALSE, outcome)
                                         /\ ret' = play_ret
                                         /\ UNCHANGED timers
                               ELSE /\ Len(queued) <= MaxItems
                                    /\ auto_items' = queued
                                    /\ ret' = Ret(op, arg, val, None)
                                    /\ no_play
                                    /\ UNCHANGED <<auto_history, timers>>

\* Player.play with populate=True.
play_populate(track, replace, add_history, max_populate, found, outcome) ==
    /\ play_body(track, replace, <<>>, <<>>, None, add_history, outcome)
    /\ IF outcome = "ok"
       THEN _do_recommendation("play", <<track, TRUE>>, track, track, max_populate,
                               history', current', previous', found, "ok")
       ELSE /\ ret' = Ret("play", <<track, TRUE>>, None, outcome)
            /\ UNCHANGED avars
    /\ UNCHANGED <<items, mode, wvars, lvars, xp>>

\* Player._auto_play_event, lines 273-275: the recommendation it runs when
\* autoplay is enabled, the queue is empty and its mode is normal.
auto_recommend(found, outcome) ==
    /\ autoplay = "enabled"
    /\ mode = "normal"
    /\ items = <<>>
    /\ _do_recommendation("_do_recommendation", None, None, None, <<>>,
                          history, current, previous, found, outcome)
    /\ UNCHANGED <<items, mode, wvars, lvars, xp>>

\* The autoplay setter.
set_autoplay(value) ==
    /\ autoplay # value
    /\ autoplay' = value
    /\ ret' = Ret("autoplay", value, None, None)
    /\ UNCHANGED <<auto_items, auto_history, previous_seeds, history_count, timers, query, runs>>
    /\ UNCHANGED <<qvars, wvars, lvars, pvars, xp>>

\* Player.__init__: the autoplay fields.

InitAuto ==
    /\ auto_items = <<>>
    /\ auto_history = <<>>
    /\ previous_seeds = <<>>
    /\ history_count = <<>>
    /\ timers = 0
    /\ query = [spotify |-> <<>>, youtube |-> <<>>]
    /\ runs = 0
    /\ autoplay = "disabled"

\* Node.__init__, line 115: inactive_channel_tokens.
DefaultTokens == 3

\* Player.__init__, lines 135-138, on a node created with the defaults.
InitEvents ==
    /\ ended = <<>>
    /\ channel_limit = <<DefaultTokens>>
    /\ channel_count = DefaultTokens
    /\ error_count = 0

\* The reasons of a TrackEndEvent that are told apart.
EndReasons == {"finished", "loadFailed", "replaced"}

\* The most track-end events whose handler has not run yet, and how far
\* below zero the channel count is followed.
MaxEnded == 1
MaxIdle == 1

\* Websocket.keep_alive, lines 203-213: a TrackEndEvent for the player
\* found for the guild. The value returned names the notification
\* dispatched; the task created for _auto_play_event is pending behind
\* those created before it.
TrackEndEvent_clears(reason) ==
    /\ ended' = Append(ended, reason)
    /\ current' = None
    /\ ret' = Ret("TrackEndEvent", reason, "track_end", None)
    /\ UNCHANGED <<original, previous, volume, paused, filters, channel_limit, channel_count,
                   error_count>>
    /\ UNCHANGED <<qvars, wvars, lvars, avars, nvars, svars, ovars, gvars, cvars, yvars>>

TrackEndEvent(reason) ==
    /\ ended' = Append(ended, reason)
    /\ current' = IF reason # "replaced" THEN None ELSE current
    /\ ret' = Ret("TrackEndEvent", reason, "track_end", None)
    /\ UNCHANGED <<original, previous, volume, paused, filters, channel_limit, channel_count,
                   error_count>>
    /\ UNCHANGED <<qvars, wvars, lvars, avars, nvars, svars, ovars, gvars, cvars, yvars>>

\* Player._auto_play_event returning without a play request; start tells
\* whether it calls _inactivity_start first.
event_return(start) ==
    /\ IF start THEN _inactivity_start ELSE UNCHANGED timers
    /\ ret' = Ret("_auto_play_event", Head(ended), None, None)
    /\ UNCHANGED <<qvars, lvars, pvars, auto_items, auto_history, previous_seeds, history_count,
                   query, runs, autoplay>>

\* Player._do_partial, lines 277-288: Queue.get and Player.play(track,
\* add_history=history) when no track is current.
_do_partial(add_history, outcome) ==
    LET r == refill(items, history, mode)
        its == r[1]
        looped == get_loop(mode, loaded)
        track == IF looped THEN loaded ELSE pop0(its)
        hist == IF looped THEN history ELSE r[2]
    IN
    /\ UNCHANGED <<mode, auto_items, auto_history, previous_seeds, history_count, query, runs,
                   autoplay>>
    /\ IF current # None
       THEN event_return(TRUE)
       ELSE IF ~looped /\ its = <<>>
       THEN /\ _inactivity_start
            /\ items' = its
            /\ history' = hist
            /\ putLog' = putLog
            /\ ret' = Ret("_auto_play_event", Head(ended), None, None)
            /\ UNCHANGED <<loaded, getLog, pvars>>
       ELSE /\ _inactivity_start
            /\ Len(getLog) < MaxLog
            /\ (outcome = "ok" /\ add_history) => Len(hist) < MaxItems
            /\ items' = IF looped THEN items ELSE after_pop0(its)
            /\ getLog' = Append(getLog, track)
            /\ putLog' = IF looped \/ its = items THEN putLog ELSE putLog \o its
            /\ history' = IF outcome = "ok" /\ add_history THEN Append(hist, track) ELSE hist
            /\ loaded' = IF outcome = "LavalinkException" THEN previous ELSE track
            /\ current' = IF outcome = "LavalinkException" THEN None ELSE track
            /\ original' = IF outcome = "LavalinkException" THEN None ELSE track
            /\ previous' = IF outcome = "LavalinkException" THEN previous ELSE track
            /\ ret' = Ret("_auto_play_event", Head(ended), track,
                          IF outcome = "ok" THEN None ELSE outcome)
            /\ UNCHANGED <<volume, paused, filters>>

\* Player._auto_play_event, lines 221-224: the token count after the
\* members of the channel were counted.
channel_tokens_kept(count, limit, members) == IF ~members THEN count - 1 ELSE count

channel_tokens(count, limit, members) == IF ~members THEN count - 1 ELSE limit

\* Player._auto_play_event, lines 217-275, run by the task keep_alive
\* created for a track-end event. channel tells whether the player has a
\* channel and members whether a member who is not a bot is in it.
_auto_play_event(channel, members, found, outcome) ==
    LET reason == Head(ended)
        limit == IF channel_limit = <<>> THEN 0 ELSE channel_limit[1]
        count == channel_tokens(channel_count, limit, members)
        inactive == limit # 0 /\ count <= 0
    IN
    /\ ended # <<>>
    /\ ended' = Tail(ended)
    /\ UNCHANGED <<channel_limit, wvars, nvars, svars, ovars, gvars, cvars, kvars, hvars,
                   auto_lock, auto_waiters, rec, superseded>>
    /\ IF ~channel
       THEN /\ event_return(FALSE)
            /\ inactive_sent' = 0
            /\ UNCHANGED <<channel_count, error_count>>
       ELSE /\ count >= -MaxIdle
            /\ channel_count' = IF inactive THEN limit ELSE count
            /\ inactive_sent' = IF inactive THEN 1 ELSE 0
            /\ IF ~inactive /\ autoplay = "disabled"
               THEN /\ event_return(TRUE)
                    /\ UNCHANGED error_count
               ELSE IF error_count >= 3
               THEN /\ event_return(TRUE)
                    /\ UNCHANGED error_count
               ELSE IF reason = "replaced"
               THEN /\ event_return(FALSE)
                    /\ error_count' = 0
               ELSE /\ error_count' = IF reason = "loadFailed" THEN error_count + 1 ELSE 0
                    /\ IF nstatus[WsNode] # "CONNECTED"
                       THEN event_return(FALSE)
                       ELSE IF mode = "loop"
                       THEN _do_partial(FALSE, outcome)
                       ELSE IF mode = "loop_all" \/ autoplay = "partial" \/ items # <<>>
                       THEN _do_partial(TRUE, outcome)
                       ELSE IF autoplay = "enabled"
                       THEN /\ _do_recommendation("_auto_play_event", reason, None, None, <<>>,
                                                  history, current, previous, found, outcome)
                            /\ UNCHANGED <<items, mode, lvars>>
                       ELSE event_return(FALSE)

\* The inactive_channel_tokens setter, lines 521-528; an empty value is
\* None.
inactive_channel_tokens(value) ==
    /\ IF value = <<>> \/ value[1] <= 0
       THEN /\ channel_limit' = <<>>
            /\ UNCHANGED channel_count
       ELSE /\ channel_limit' = value
            /\ channel_count' = value[1]
    /\ ret' = Ret("inactive_channel_tokens", value, None, None)
    /\ UNCHANGED <<ended, error_count, qvars, wvars, lvars, pvars, nvars, avars, svars, ovars,
                   gvars, cvars, yvars>>

\* A Player.switch_node that is not running.
Idle == [pc |-> "idle", guild |-> None, new_node |-> None]

\* Node objects: the nodes, and one more Node created with the identifier
\* of the first of them.
Twin == "n1'"
NodeObjects == Nodes \cup {Twin}
identifier_of(node) == IF node = Twin THEN "n1" ELSE node

\* The most Websocket.connect calls followed for one Node object.
MaxConnects == 2

\* Node.__init__, lines 124-128, for every Node object.
InitObjects ==
    /\ sessions = [node \in NodeObjects |-> None]
    /\ pnode = [g \in Guilds |-> WsNode]
    /\ pstate = [g \in Guilds |-> "new"]
    /\ sw = [c \in Callers |-> Idle]
    /\ connects = [node \in NodeObjects |-> 0]

\* ---------------------------------------------------------------------
\* Pool.fetch_tracks and the request cache.

\* The queries asked, and urllib.parse.quote of each (node.py line 862).
Queries == {"x", "a b"}

quote(q) == IF q = "a b" THEN "a%20b" ELSE q

EncodedQueries == {quote(q) : q \in Queries}

\* Playable.is_stream, tracks.py lines 161-164: the track "s" is a live stream.
is_stream(track) == track = "s"

\* A list of Playable, and a Playlist of the same tracks.
Listed(tracks) == [kind |-> "list", tracks |-> tracks]

Playlisted(tracks) == [kind |-> "playlist", tracks |-> tracks]

\* `if potential:`, line 867: an empty list and an empty Playlist (__len__,
\* tracks.py line 438) are false, as is the default None.
truthy(potential) == potential # <<>> /\ potential[1].tracks # <<>>

\* How many uses the cache counts for an entry.
MaxUses == 2

\* The keys the LFUCache holds.
held == {k \in EncodedQueries : cache[k] # <<>>}

\* LFUCache.get: the value of a held key, used once more.
used(key) ==
    IF cache[key] = <<>> THEN cache_freq
    ELSE [cache_freq EXCEPT ![key] = Min(@ + 1, MaxUses)]

\* LFUCache.put, after the uses `freq` : a held key takes the new value; a
\* new key enters, and when the capacity is reached one of the least
\* frequently used keys leaves first.
LFUCache_put(key, value, freq) ==
    IF cache[key] # <<>>
    THEN /\ cache' = [cache EXCEPT ![key] = <<value>>]
         /\ cache_freq' = [freq EXCEPT ![key] = Min(@ + 1, MaxUses)]
    ELSE IF Cardinality(held) < cache_capacity[1]
    THEN /\ cache' = [cache EXCEPT ![key] = <<value>>]
         /\ cache_freq' = [freq EXCEPT ![key] = 1]
    ELSE \E victim \in {k \in held : \A j \in held : freq[k] <= freq[j]} :
         /\ cache' = [cache EXCEPT ![victim] = <<>>, ![key] = <<value>>]
         /\ cache_freq' = [freq EXCEPT ![victim] = 0, ![key] = 1]

\* Pool.__cache = None, node.py line 690.
InitCache ==
    /\ cache_capacity = <<>>
    /\ cache = [k \in EncodedQueries |-> <<>>]
    /\ cache_freq = [k \in EncodedQueries |-> 0]

\* Pool.cache, lines 907-915 (capacity empty: None).
Pool_cache(capacity) ==
    /\ IF capacity = <<>> \/ capacity[1] <= 0
       THEN cache_capacity' = <<>>
       ELSE cache_capacity' = capacity
    /\ cache' = [k \in EncodedQueries |-> <<>>]
    /\ cache_freq' = [k \in EncodedQueries |-> 0]
    /\ ret' = Ret("cache", capacity, None, None)
    /\ UNCHANGED <<qvars, wvars, lvars, pvars, nvars, avars, svars, ovars, gvars, evars, yvars>>

\* The answers of Node._fetch_tracks: a loadType and its data, or the
\* failure of the request.
Responses ==
    [loadType : {"track"}, data : {<<"a">>, <<"s">>}]
    \cup [loadType : {"search"}, data : {<<>>, <<"a">>, <<"a", "s">>}]
    \cup [loadType : {"playlist"}, data : {<<"a">>, <<"s">>}]
    \cup [loadType : {"empty", "error", "failed", "other"}, data : {<<>>}]

\* Lines 873-904: what the response makes of the cache and of the call.
loaded_response(q, encoded_query, resp, freq) ==
    CASE resp.loadType = "track" ->
            /\ IF cache_capacity # <<>> /\ ~is_stream(resp.data[1])
               THEN LFUCache_put(encoded_query, Listed(resp.data), freq)
               ELSE cache' = cache /\ cache_freq' = freq
            /\ ret' = Ret("fetch_tracks", <<q, "node">>, Listed(resp.data), None)
      [] resp.loadType = "search" ->
            /\ IF cache_capacity # <<>>
               THEN LFUCache_put(encoded_query, Listed(resp.data), freq)
               ELSE cache' = cache /\ cache_freq' = freq
            /\ ret' = Ret("fetch_tracks", <<q, "node">>, Listed(resp.data), None)
      [] resp.loadType = "playlist" ->
            /\ IF cache_capacity # <<>>
               THEN LFUCache_put(encoded_query, Playlisted(resp.data), freq)
               ELSE cache' = cache /\ cache_freq' = freq
            /\ ret' = Ret("fetch_tracks", <<q, "node">>, Playlisted(resp.data), None)
      [] resp.loadType = "error" ->
            /\ cache' = cache /\ cache_freq' = freq
            /\ ret' = Ret("fetch_tracks", <<q, "node">>, None, "LavalinkLoadException")
      [] resp.loadType = "failed" ->
            /\ cache' = cache /\ cache_freq' = freq
            /\ ret' = Ret("fetch_tracks", <<q, "node">>, None, "LavalinkException")
      [] OTHER ->
            /\ cache' = cache /\ cache_freq' = freq
            /\ ret' = Ret("fetch_tracks", <<q, "node">>, Listed(<<>>), None)

\* Pool.fetch_tracks, lines 862-904, for the query q.
fetch_tracks(q, node, resp) ==
    LET encoded_query == quote(q)
        potential == IF cache_capacity # <<>> THEN cache[encoded_query] ELSE <<>>
        freq == IF cache_capacity # <<>> THEN used(encoded_query) ELSE cache_freq
    IN  /\ IF truthy(potential)
           THEN /\ cache' = cache
                /\ cache_freq' = freq
                /\ ret' = Ret("fetch_tracks", <<q, "cache">>, potential[1], None)
           ELSE IF node = None /\ connected_nodes = <<>>
           THEN /\ cache' = cache
                /\ cache_freq' = freq
                /\ ret' = Ret("fetch_tracks", <<q, "node">>, None, "InvalidNodeException")
           ELSE loaded_response(q, encoded_query, resp, freq)
        /\ UNCHANGED cache_capacity
        /\ UNCHANGED <<qvars, wvars, lvars, pvars, nvars, avars, svars, ovars, gvars, evars, yvars>>

Init ==
    /\ InitQueue /\ InitPlayer /\ InitNode /\ InitAuto /\ InitEvents /\ InitCache /\ InitLater /\ InitWs /\ InitObjects
    /\ Backoff_defaults /\ node_retries = <<>>

NextQueue ==
    \/ \E item \in PutItems, atomic \in BOOLEAN : put(item, atomic)
    \/ get
    \/ \E value \in QueueModes : set_mode(value)
    \/ history_put

SpecQueue == Init /\ [][NextQueue]_vars

\* The blocking consumers: tasks calling get_wait, against put and get.
NextWait ==
    \/ \E item \in PutItems, atomic \in BOOLEAN : put(item, atomic)
    \/ get
    \/ \E c \in Pair : get_wait(c)
    \/ \E c \in Pair : get_wait_resume(c)

SpecWait == Init /\ [][NextWait]_vars

\* The blocking consumers and their cancellation.
CancelItems == {One("a"), Many(<<"a", "b">>)}

NextCancel ==
    \/ \E item \in CancelItems : put(item, TRUE)
    \/ get
    \/ \E c \in Callers : get_wait(c)
    \/ \E c \in Callers : get_wait_resume(c)
    \/ \E c \in Callers : cancel(c)
    \/ \E c \in Callers : get_wait_cancelled(c)

SpecCancel == Init /\ [][NextCancel]_vars

\* The producers: tasks calling put_wait once each.
PutWaitItems == {One("a"), One(NotPlayable), Many(<<>>), Many(<<"a", "b">>), Many(<<"a", NotPlayable>>)}

NextPutWait ==
    \/ \E c \in Callers, item \in PutWaitItems, atomic \in BOOLEAN : put_wait(c, item, atomic)
    \/ \E c \in Callers : put_wait_acquired(c)
    \/ \E c \in Callers : put_wait_resume(c)

SpecPutWait == Init /\ [][NextPutWait]_vars

\* The playback commands of one player.
NextPlay ==
    \/ \E track \in Tracks, replace \in BOOLEAN, varg \in VolumeArgs, parg \in PausedArgs,
          farg \in FiltersArgs, add_history \in BOOLEAN, outcome \in Outcomes :
            play(track, replace, varg, parg, farg, add_history, outcome)
    \/ \E value \in VolumeValues, outcome \in Outcomes : set_volume(value, outcome)
    \/ \E force \in BOOLEAN, outcome \in Outcomes : skip(force, outcome)

SpecPlay == Init /\ [][NextPlay]_vars

\* AutoPlay's recommendations: play with and without populate, the
\* recommendation run of the track-end continuation, the autoplay setter.
NextRec ==
    \/ \E track \in Tracks, add_history \in BOOLEAN, outcome \in Outcomes :
            play(track, TRUE, <<>>, <<>>, None, add_history, outcome)
    \/ \E track \in Tracks, add_history \in BOOLEAN, max_populate \in MaxPopulateArgs,
          found \in SeqsUpTo(Tracks, MaxFound), outcome \in Outcomes :
            play_populate(track, TRUE, add_history, max_populate, found, outcome)
    \/ \E found \in SeqsUpTo(Tracks, MaxFound), outcome \in Outcomes : auto_recommend(found, outcome)
    \/ set_autoplay("enabled")

SpecRec == Init /\ [][NextRec]_vars

\* One node connecting: Pool.connect and Pool.reconnect, and the steps of
\* Websocket.connect against the answers of the Lavalink server.
InitSession ==
    /\ InitQueue
    /\ InitPlayer
    /\ InitNode
    /\ InitAuto
    /\ InitEvents
    /\ InitCache
    /\ InitLater
    /\ InitWs
    /\ InitObjects
    /\ Backoff_defaults
    /\ node_retries \in RetriesArgs

NextWS ==
    \/ \E client_arg \in BOOLEAN : Pool_connect(client_arg)
    \/ Pool_reconnect
    \/ \E result \in {"ok", "401", "404", "error"} : ws_connect(result)
    \/ \E message \in {"ready", "text", "bad_text", "non_text", "exception"}, sid \in SessionIds,
          update \in {"ok", "LavalinkException"} : ws_receive(message, sid, update)
    \/ ws_sleep
    \/ \E eject \in BOOLEAN : close(eject)

SpecWS == InitSession /\ [][NextWS]_vars

\* A Backoff on its own: any configuration, any sequence of calculate().
BaseArgs == {0, 1, 2}
MaximumTimeArgs == {4, 30, 40}
MaximumTriesArgs == {<<>>, <<2>>, <<5>>}

InitBackoff ==
    /\ InitQueue
    /\ InitPlayer
    /\ InitNode
    /\ InitAuto
    /\ InitEvents
    /\ InitCache
    /\ InitLater
    /\ InitWs
    /\ InitObjects
    /\ node_retries = <<>>
    /\ b_base \in BaseArgs
    /\ b_maximum_time \in MaximumTimeArgs
    /\ b_maximum_tries \in MaximumTriesArgs

NextBackoff == Backoff_calculate

SpecBackoff == InitBackoff /\ [][NextBackoff]_vars

\* node.identifier in cls.__nodes, line 727.
registered_same(node) == node \in Range(pool)

registered(node) == \E i \in DOMAIN pool : identifier_of(pool[i]) = identifier_of(node)

\* How Node._connect ends for the caller, from the steps of
\* Websocket.connect: the client is missing; the handshake is rejected
\* (cleanup, then AuthorizationFailedException or NodeException); the first
\* message is ready (session id and CONNECTED, then backoff.reset raises
\* AttributeError); the first message has no JSON body (ValueError); or the
\* retries are exhausted (cleanup, then a normal return).
ConnectOutcomes == {"InvalidClientException", "401", "404", "ready", "bad_text", "exhausted"}

connected(node, outcome, sid) ==
    IF outcome = "InvalidClientException"
    THEN UNCHANGED <<nstatus, sessions, players, connects>>
    ELSE /\ connects' = [connects EXCEPT ![node] = @ + 1]
         /\ nstatus' = [nstatus EXCEPT ![node] =
                IF outcome = "ready" THEN "CONNECTED"
                ELSE IF outcome = "bad_text" THEN "CONNECTING" ELSE "DISCONNECTED"]
         /\ sessions' = [sessions EXCEPT ![node] = IF outcome = "ready" THEN sid ELSE None]
         /\ players' = IF outcome \in {"401", "404", "exhausted"}
                       THEN [players EXCEPT ![node] = {}] ELSE players

\* Pool.connect(nodes=[node]), lines 724-749.
Pool_connect_node(node, outcome, sid) ==
    /\ connects[node] < MaxConnects
    /\ IF registered(node)
       THEN /\ ret' = Ret("Pool.connect", node, "registered", None)
            /\ UNCHANGED <<nvars, ovars>>
       ELSE IF nstatus[node] \in {"CONNECTING", "CONNECTED"}
       THEN /\ ret' = Ret("Pool.connect", node, "connecting", None)
            /\ UNCHANGED <<nvars, ovars>>
       ELSE /\ connected(node, outcome, sid)
            /\ pool' = IF outcome = "exhausted" THEN Append(pool, node) ELSE pool
            /\ ret' = Ret("Pool.connect", node, outcome,
                          IF outcome = "ready" THEN "AttributeError"
                          ELSE IF outcome = "bad_text" THEN "ValueError" ELSE None)
            /\ UNCHANGED total
    /\ UNCHANGED <<qvars, wvars, lvars, pvars, avars, svars, gvars, evars, cvars, yvars>>

\* Pool.reconnect, lines 762-779, for one registered node.
Pool_reconnect_node(node, outcome, sid) ==
    /\ connects[node] < MaxConnects
    /\ node \in Range(pool)
    /\ IF nstatus[node] # "DISCONNECTED"
       THEN /\ ret' = Ret("Pool.reconnect", node, "connecting", None)
            /\ UNCHANGED <<nvars, ovars>>
       ELSE /\ connected(node, outcome, sid)
            /\ ret' = Ret("Pool.reconnect", node, outcome,
                          IF outcome = "ready" THEN "AttributeError"
                          ELSE IF outcome = "bad_text" THEN "ValueError" ELSE None)
            /\ UNCHANGED <<pool, total>>
    /\ UNCHANGED <<qvars, wvars, lvars, pvars, avars, svars, gvars, evars, cvars, yvars>>

\* Node.close(eject), lines 250-291.
Node_close(node, eject) ==
    /\ nstatus' = [nstatus EXCEPT ![node] = "DISCONNECTED"]
    /\ sessions' = [sessions EXCEPT ![node] = None]
    /\ players' = [players EXCEPT ![node] = {}]
    /\ pool' = IF eject THEN SelectSeq(pool, LAMBDA o : identifier_of(o) # identifier_of(node)) ELSE pool
    /\ ret' = Ret("close", node, eject, None)
    /\ UNCHANGED <<total, connects>>
    /\ UNCHANGED <<qvars, wvars, lvars, pvars, avars, svars, gvars, evars, cvars, yvars>>

\* The registry of the Pool and its Node objects.
InitRegistry ==
    /\ InitQueue
    /\ InitPlayer
    /\ InitAuto
    /\ InitEvents
    /\ InitCache
    /\ InitLater
    /\ InitWs
    /\ InitObjects
    /\ Backoff_defaults
    /\ node_retries = <<>>
    /\ pool = <<>>
    /\ nstatus = [node \in NodeObjects |-> "DISCONNECTED"]
    /\ total = [node \in NodeObjects |-> <<>>]
    /\ players = [node \in NodeObjects |-> {}]

NextRegistry ==
    \/ \E node \in {"n1", Twin}, outcome \in ConnectOutcomes, sid \in SessionIds :
            Pool_connect_node(node, outcome, sid)
    \/ \E node \in {"n1", Twin}, outcome \in ConnectOutcomes, sid \in SessionIds :
            Pool_reconnect_node(node, outcome, sid)
    \/ \E node \in {"n1", Twin}, eject \in BOOLEAN : Node_close(node, eject)

SpecRegistry == InitRegistry /\ [][NextRegistry]_vars

\* The players and the player registries of the nodes. The registry of a
\* node is keyed by guild; the player of a guild is one Player object.

\* Player._destroy, lines 1163-1169, before the request: the registry of
\* the player's node without the player.
popped(reg, g) == [reg EXCEPT ![pnode[g]] = @ \ {g}]

\* Player.connect, lines 775-782, called by discord.py on the player it has
\* just created: the player registers with its node.
Player_connect(g) ==
    /\ pstate[g] = "new"
    /\ players' = [players EXCEPT ![pnode[g]] = @ \cup {g}]
    /\ pstate' = [pstate EXCEPT ![g] = IF @ = "new" THEN "disconnected" ELSE @]
    /\ ret' = Ret("Player.connect", g, None, None)
    /\ UNCHANGED <<pool, nstatus, total, pnode, sw>>
    /\ UNCHANGED <<qvars, wvars, lvars, pvars, avars, svars, ovars, evars, cvars, yvars>>

\* Player._dispatch_voice_update, lines 732-751, called by
\* on_voice_server_update with a complete voice state.
on_voice_server_update(g, outcome) ==
    /\ pstate[g] # "new"
    /\ IF outcome = "ok"
       THEN /\ pstate' = [pstate EXCEPT ![g] = "connected"]
            /\ UNCHANGED players
       ELSE IF outcome = "LavalinkException"
       THEN /\ pstate' = [pstate EXCEPT ![g] = "disconnected"]
            /\ players' = popped(players, g)
       ELSE UNCHANGED <<pstate, players>>
    /\ ret' = Ret("on_voice_server_update", g, None, IF outcome = "NodeException" THEN outcome ELSE None)
    /\ UNCHANGED <<pool, nstatus, total, pnode, sw>>
    /\ UNCHANGED <<qvars, wvars, lvars, pvars, avars, svars, ovars, evars, cvars, yvars>>

\* Player.disconnect, lines 1106-1109.
Player_disconnect(g) ==
    /\ pstate[g] # "new"
    /\ pstate' = [pstate EXCEPT ![g] = "disconnected"]
    /\ players' = popped(players, g)
    /\ ret' = Ret("disconnect", g, None, None)
    /\ UNCHANGED <<pool, nstatus, total, pnode, sw>>
    /\ UNCHANGED <<qvars, wvars, lvars, pvars, avars, svars, ovars, evars, cvars, yvars>>

\* Player.switch_node from line 471 on: the node is assigned and the voice
\* state dispatched; voice tells whether the voice state is complete, so
\* that the request of _dispatch_voice_update is awaited.
switch_assign(c, g, new_node, voice, reg) ==
    /\ pnode' = [pnode EXCEPT ![g] = new_node]
    /\ UNCHANGED pstate
    /\ IF voice
       THEN /\ sw' = [sw EXCEPT ![c] = [pc |-> "voice", guild |-> g, new_node |-> new_node]]
            /\ players' = reg
            /\ ret' = Ret("switch_node", <<g, new_node>>, "awaiting", None)
       ELSE /\ sw' = [sw EXCEPT ![c] = Idle]
            /\ IF pstate[g] = "connected"
               THEN /\ players' = [reg EXCEPT ![new_node] = @ \cup {g}]
                    /\ ret' = Ret("switch_node", <<g, new_node>>, None, None)
               ELSE /\ players' = reg
                    /\ ret' = Ret("switch_node", <<g, new_node>>, None, "RuntimeError")

\* Player.switch_node, lines 465-471, up to its first await.
switch_node(c, g, new_node, voice) ==
    /\ sw[c].pc = "idle"
    /\ pstate[g] # "new"
    /\ IF new_node = pnode[g]
       THEN /\ ret' = Ret("switch_node", <<g, new_node>>, None, "InvalidNodeException")
            /\ UNCHANGED <<players, pnode, pstate, sw>>
       ELSE IF g \in players[pnode[g]]
       THEN /\ players' = popped(players, g)
            /\ sw' = [sw EXCEPT ![c] = [pc |-> "destroy", guild |-> g, new_node |-> new_node]]
            /\ ret' = Ret("switch_node", <<g, new_node>>, "awaiting", None)
            /\ UNCHANGED <<pnode, pstate>>
       ELSE switch_assign(c, g, new_node, voice, players)
    /\ UNCHANGED <<pool, nstatus, total>>
    /\ UNCHANGED <<qvars, wvars, lvars, pvars, avars, svars, ovars, evars, cvars, yvars>>

\* Player.switch_node resumed from node._destroy_player, line 1173.
switch_destroyed(c, voice) ==
    /\ sw[c].pc = "destroy"
    /\ switch_assign(c, sw[c].guild, sw[c].new_node, voice, players)
    /\ UNCHANGED <<pool, nstatus, total>>
    /\ UNCHANGED <<qvars, wvars, lvars, pvars, avars, svars, ovars, evars, cvars, yvars>>

\* Player.switch_node resumed from node._update_player, lines 746-751 and
\* 473-477; the requests that follow do not touch the registries.
switch_voiced(c, outcome) ==
    LET g == sw[c].guild IN
    /\ sw[c].pc = "voice"
    /\ sw' = [sw EXCEPT ![c] = Idle]
    /\ IF outcome = "ok"
       THEN /\ pstate' = [pstate EXCEPT ![g] = "connected"]
            /\ players' = [players EXCEPT ![pnode[g]] = @ \cup {g}]
            /\ ret' = Ret("switch_node", <<g, sw[c].new_node>>, None, None)
       ELSE IF outcome = "LavalinkException"
       THEN /\ pstate' = [pstate EXCEPT ![g] = "disconnected"]
            /\ players' = popped(players, g)
            /\ ret' = Ret("switch_node", <<g, sw[c].new_node>>, None, "RuntimeError")
       ELSE /\ ret' = Ret("switch_node", <<g, sw[c].new_node>>, None, outcome)
            /\ UNCHANGED <<pstate, players>>
    /\ UNCHANGED <<pool, nstatus, total, pnode>>
    /\ UNCHANGED <<qvars, wvars, lvars, pvars, avars, svars, ovars, evars, cvars, yvars>>

\* Websocket.cleanup, lines 287-289, for any node.
Node_cleanup(n) ==
    /\ nstatus' = [nstatus EXCEPT ![n] = "DISCONNECTED"]
    /\ players' = [players EXCEPT ![n] = {}]
    /\ ret' = Ret("cleanup", n, None, None)
    /\ UNCHANGED <<pool, total, gvars>>
    /\ UNCHANGED <<qvars, wvars, lvars, pvars, avars, svars, ovars, evars, cvars, yvars>>

\* Node.close, lines 268-282: every registered player is disconnected, then
\* the registry is emptied.
Node_close_players(n) ==
    /\ nstatus' = [nstatus EXCEPT ![n] = "DISCONNECTED"]
    /\ pstate' = [g \in Guilds |-> IF g \in players[n] THEN "disconnected" ELSE pstate[g]]
    /\ players' = [m \in Nodes |->
            IF m = n THEN {} ELSE players[m] \ {g \in players[n] : pnode[g] = m}]
    /\ ret' = Ret("close", n, None, None)
    /\ UNCHANGED <<pool, total, pnode, sw>>
    /\ UNCHANGED <<qvars, wvars, lvars, pvars, avars, svars, ovars, evars, cvars, yvars>>

\* ---------------------------------------------------------------------
\* The voice handshake of the player of the guild G.

\* What the handlers of the voice handshake leave alone.
vframe == <<qvars, wvars, lvars, pvars, pool, nstatus, total, svars, ovars, evars, cvars, kvars, rvars,
            pstate, sw, auto_items, auto_history, previous_seeds, history_count, query, runs,
            autoplay>>

\* Player._inactivity_cancel, lines 200-207.
_inactivity_cancel ==
    /\ itask' = FALSE
    /\ timers' = IF itask /\ timers > 0 THEN timers - 1 ELSE timers

\* asyncio.Event.set of Player._connection_event: the call waiting in
\* connect or move_to is woken.
woken_call == IF vpc = "connect_wait" THEN "connect_woken"
              ELSE IF vpc = "move_wait" THEN "move_woken" ELSE vpc

\* asyncio.Event.set of Player._reconnecting: every waiting task is woken.
woken_tasks == [waiting |-> 0, woken |-> dwait.woken + dwait.waiting]

\* Player._invalidate, lines 1153-1161; cleanup() takes the player out of
\* the host's voice clients.
_invalidate ==
    /\ _connected' = FALSE
    /\ connection_event' = FALSE
    /\ _inactivity_cancel
    /\ attached' = FALSE
    /\ dispatched' = FALSE

\* Player._destroy, lines 1163-1175; the request is sent for a player that
\* was in the registry, and its failure is logged.
_destroy(with_invalidate) ==
    /\ IF with_invalidate
       THEN _invalidate
       ELSE UNCHANGED <<_connected, connection_event, itask, timers, attached, dispatched>>
    /\ players' = popped(players, G)
    /\ discards' = IF G \in players[pnode[G]] THEN discards + 1 ELSE discards

\* Player._dispatch_voice_update, lines 732-753, with the voice state vs;
\* outcome is the end of the request of node._update_player.
complete(vs) == \A k \in VoiceKeys : vs[k]

_dispatch_voice_update(by, vs, outcome) ==
    IF ~complete(vs)
    THEN /\ ret' = Ret(by, "incomplete", None, None)
         /\ UNCHANGED <<_connected, connection_event, itask, timers, attached, dispatched,
                        players, discards, vreq, vpc>>
    ELSE /\ vreq' = <<vs>>
         /\ IF outcome = "ok"
            THEN /\ _connected' = TRUE
                 /\ connection_event' = TRUE
                 /\ vpc' = woken_call
                 /\ dispatched' = TRUE
                 /\ ret' = Ret(by, "sent", None, None)
                 /\ UNCHANGED <<itask, timers, attached, players, discards>>
            ELSE IF outcome = "LavalinkException"
            THEN /\ _destroy(TRUE)
                 /\ ret' = Ret(by, "sent", "failed", None)
                 /\ UNCHANGED vpc
            ELSE /\ ret' = Ret(by, "sent", "failed", outcome)
                 /\ UNCHANGED <<_connected, connection_event, itask, timers, attached,
                                dispatched, players, discards, vpc>>

\* Player.on_voice_state_update, lines 714-724; channel_id tells whether
\* the update names a channel.
on_voice_state_update(channel_id) ==
    /\ attached
    /\ IF ~channel_id
       THEN /\ _destroy(TRUE)
            /\ ret' = Ret("on_voice_state_update", "exit", None, None)
            /\ UNCHANGED voice_state
       ELSE /\ _connected' = TRUE
            /\ voice_state' = [voice_state EXCEPT !["session_id"] = TRUE]
            /\ ret' = Ret("on_voice_state_update", "channel", None, None)
            /\ UNCHANGED <<connection_event, itask, timers, attached, dispatched, players, discards>>
    /\ UNCHANGED <<reconnecting, vpc, dwait, vreq, pnode, vframe>>

\* Player.on_voice_server_update, lines 726-730; token and endpoint tell
\* whether the update carries a value for them.
Player_on_voice_server_update(token, endpoint, outcome) ==
    LET vs == [voice_state EXCEPT !["token"] = token, !["endpoint"] = endpoint] IN
    /\ attached
    /\ voice_state' = vs
    /\ _dispatch_voice_update("on_voice_server_update", vs, outcome)
    /\ UNCHANGED <<reconnecting, dwait, pnode, vframe>>

\* Player.disconnect, lines 1106-1109.
disconnect ==
    /\ vpc # "new"
    /\ _destroy(TRUE)
    /\ ret' = Ret("disconnect", G, None, None)
    /\ UNCHANGED <<voice_state, reconnecting, vpc, dwait, vreq, pnode, vframe>>

\* Player.connect, lines 775-792, on the player the host has just made its
\* voice client, up to the wait for the connection event.
connect ==
    /\ vpc = "new"
    /\ attached' = TRUE
    /\ players' = [players EXCEPT ![pnode[G]] = @ \cup {G}]
    /\ discards' = 0
    /\ vpc' = IF connection_event THEN "idle" ELSE "connect_wait"
    /\ ret' = Ret("connect", G, None, IF connection_event THEN None ELSE "suspended")
    /\ UNCHANGED <<_connected, voice_state, connection_event, reconnecting, dwait, itask, timers,
                   dispatched, vreq, pnode, vframe>>

\* Player.connect and Player.move_to resumed by the connection event, or by
\* the timeout: lines 786-792 and 845-853.
wait_over(timeout) ==
    /\ IF timeout
       THEN vpc \in {"connect_wait", "move_wait"}
       ELSE vpc \in {"connect_woken", "move_woken"}
    /\ vpc' = "idle"
    /\ IF vpc \in {"move_wait", "move_woken"}
       THEN /\ reconnecting' = TRUE
            /\ dwait' = woken_tasks
            /\ ret' = Ret("move_to", G, None, IF timeout THEN "ChannelTimeoutException" ELSE None)
       ELSE /\ ret' = Ret("connect", G, None, IF timeout THEN "ChannelTimeoutException" ELSE None)
            /\ UNCHANGED <<reconnecting, dwait>>
    /\ UNCHANGED <<_connected, voice_state, connection_event, attached, itask, timers, dispatched,
                   vreq, discards, players, pnode, vframe>>

\* Player.move_to, lines 824-847, up to the wait for the connection event;
\* channel tells whether a channel is given, outcome how the request of
\* guild.change_voice_state ended.
move_to(channel, outcome) ==
    /\ vpc = "idle"
    /\ connection_event' = FALSE
    /\ IF outcome # "ok"
       THEN /\ reconnecting' = FALSE
            /\ ret' = Ret("move_to", G, None, outcome)
            /\ UNCHANGED <<vpc, dwait>>
       ELSE IF ~channel
       THEN /\ reconnecting' = TRUE
            /\ dwait' = woken_tasks
            /\ ret' = Ret("move_to", G, None, None)
            /\ UNCHANGED vpc
       ELSE /\ reconnecting' = FALSE
            /\ vpc' = "move_wait"
            /\ ret' = Ret("move_to", G, None, "suspended")
            /\ UNCHANGED dwait
    /\ UNCHANGED <<_connected, voice_state, attached, itask, timers, dispatched, vreq, discards,
                   players, pnode, vframe>>

\* The close the node reports, as the last call records it.
closed(code, by_remote) == IF code = 4014 /\ by_remote THEN "4014 by remote" ELSE "other"

\* The most _disconnected_wait tasks that are followed.
MaxWaits == 2

\* Websocket.keep_alive, lines 242-253, and Player._disconnected_wait, lines
\* 150-160, up to the wait for Player._reconnecting: the node of the player
\* reports that the voice websocket of the guild was closed.
_disconnected_wait(code, by_remote) ==
    /\ G \in players[pnode[G]]
    /\ IF code # 4014 \/ ~by_remote
       THEN /\ ret' = Ret("_disconnected_wait", closed(code, by_remote), None, None)
            /\ UNCHANGED <<_connected, connection_event, itask, timers, attached, dispatched,
                           players, discards, dwait>>
       ELSE IF reconnecting
       THEN /\ _destroy(TRUE)
            /\ ret' = Ret("_disconnected_wait", closed(code, by_remote), "destroyed", None)
            /\ UNCHANGED dwait
       ELSE /\ dwait.waiting + dwait.woken < MaxWaits
            /\ _connected' = FALSE
            /\ dispatched' = FALSE
            /\ dwait' = [dwait EXCEPT !.waiting = @ + 1]
            /\ ret' = Ret("_disconnected_wait", closed(code, by_remote), None, "suspended")
            /\ UNCHANGED <<connection_event, itask, timers, attached, players, discards>>
    /\ UNCHANGED <<voice_state, reconnecting, vpc, vreq, pnode, vframe>>

\* Player._disconnected_wait resumed after Player._reconnecting was set,
\* lines 157-160.
disconnected_resume ==
    /\ dwait.woken > 0
    /\ dwait' = [dwait EXCEPT !.woken = @ - 1]
    /\ IF _connected
       THEN /\ ret' = Ret("_disconnected_wait", closed(4014, TRUE), "kept", None)
            /\ UNCHANGED <<_connected, connection_event, itask, timers, attached, dispatched,
                           players, discards>>
       ELSE /\ _destroy(TRUE)
            /\ ret' = Ret("_disconnected_wait", closed(4014, TRUE), "destroyed", None)
    /\ UNCHANGED <<voice_state, reconnecting, vpc, vreq, pnode, vframe>>

\* The bound on the pending inactivity countdowns of the player.
MaxCountdowns == 2

\* Websocket.keep_alive, lines 191-213: the node reports the start or the
\* end of a track it was asked to play, and the loop hands the event to the
\* player registered for the guild; play has set the track as current.
registered_playing == G \in players[pnode[G]] /\ current # None

\* What the handlers of the countdown leave alone.
cframe == <<_connected, voice_state, connection_event, reconnecting, attached, vpc, dwait,
            dispatched, vreq, discards, players, pnode, auto_lock, auto_waiters, rec,
            qvars, wvars, lvars, pvars, pool, nstatus, total, svars, ovars, cvars, kvars,
            pstate, sw, auto_items, auto_history, previous_seeds, history_count, query, runs,
            autoplay, channel_limit, channel_count, error_count>>

\* Player._auto_play_event, lines 217-234, run by the task keep_alive
\* created for the track-end event of a player with autoplay disabled whose
\* channel has a member that is not a bot: the token count is set to the
\* limit, and _inactivity_start, lines 209-212, creates a countdown task
\* and keeps it in _inactivity_task, whatever task was kept there.
track_end_disabled ==
    /\ ended # <<>>
    /\ ended' = Tail(ended)
    /\ autoplay = "disabled"
    /\ channel_limit # <<>> /\ channel_count = channel_limit[1]
    /\ timers < MaxCountdowns
    /\ timers' = timers + 1
    /\ itask' = TRUE
    /\ inactive_sent' = 0
    /\ ret' = Ret("_auto_play_event", Head(ended), None, None)
    /\ UNCHANGED <<superseded, cframe>>

\* Player._track_start, lines 214-215, run by the task keep_alive created
\* for the track-start event of the registered player: the countdowns that
\* stay pending were created before this track start.
_track_start ==
    /\ registered_playing
    /\ _inactivity_cancel
    /\ superseded' = timers'
    /\ ret' = Ret("_track_start", G, None, None)
    /\ UNCHANGED <<ended, inactive_sent, cframe>>

\* Player.playing, line 677.
playing == _connected /\ current # None

\* The countdown tasks that are pending and that _inactivity_task does not
\* refer to.
orphans == timers - (IF itask THEN 1 ELSE 0)

\* Player._inactivity_runner and Player._inactivity_task_callback, lines
\* 162-198: the sleep of a pending countdown task ends and its callback
\* runs. which tells the task: the one _inactivity_task refers to, one it
\* does not refer to that was created before the last track start, or one
\* it does not refer to that was created after it. The value returned names
\* the notification dispatched.
_inactivity_task_callback(which) ==
    /\ CASE which = "current" -> itask /\ timers > 0
         [] which = "superseded" -> superseded > 0
         [] OTHER -> orphans - superseded > 0
    /\ timers' = timers - 1
    /\ itask' = IF which = "current" THEN FALSE ELSE itask
    /\ superseded' = IF which = "superseded" THEN superseded - 1 ELSE superseded
    /\ ret' = Ret("_inactivity_task_callback", which,
                  IF vpc # "new" /\ ~playing THEN "inactive_player" ELSE None, None)
    /\ UNCHANGED <<ended, inactive_sent, cframe>>

\* ---------------------------------------------------------------------
\* The runs of Player._do_recommendation as tasks: which task is at the
\* await of its searches (line 377). What a run reads and writes is
\* followed by _do_recommendation above; here the runs only start and end.

\* Player._auto_play_event, lines 273-275: the continuation of the task c
\* enters `async with self._auto_lock` and, holding it, runs up to the
\* searches.
recommend_event(c) ==
    /\ rec[c] = "idle"
    /\ autoplay = "enabled"
    /\ IF auto_lock = None
       THEN /\ auto_lock' = c
            /\ rec' = [rec EXCEPT ![c] = "searching"]
            /\ UNCHANGED auto_waiters
       ELSE /\ auto_waiters' = Append(auto_waiters, c)
            /\ rec' = [rec EXCEPT ![c] = "lock_wait"]
            /\ UNCHANGED auto_lock
    /\ ret' = Ret("_auto_play_event", c, None, "suspended")
    /\ UNCHANGED <<superseded, inactive_sent, qvars, wvars, lvars, base, kvars, hvars>>

\* Player.play, lines 985-986: after its request succeeded, play called
\* with populate=True by the task c runs _do_recommendation up to the
\* searches.
recommend_populate(c) ==
    /\ rec[c] = "idle"
    /\ rec' = [rec EXCEPT ![c] = "searching"]
    /\ ret' = Ret("play", c, None, "suspended")
    /\ UNCHANGED <<auto_lock, auto_waiters, superseded, inactive_sent, qvars, wvars, lvars, base,
                   kvars, hvars>>

\* The task c, handed Player._auto_lock, runs up to the searches.
recommend_acquired(c) ==
    /\ rec[c] = "lock_woken"
    /\ rec' = [rec EXCEPT ![c] = "searching"]
    /\ ret' = Ret("_auto_play_event", c, None, "suspended")
    /\ UNCHANGED <<auto_lock, auto_waiters, superseded, inactive_sent, qvars, wvars, lvars, base,
                   kvars, hvars>>

\* The searches of the run of c are over and the run ends, lines 377-417;
\* the continuation leaves `async with` and the lock goes to the task that
\* waited first.
recommend_done(c) ==
    /\ rec[c] = "searching"
    /\ IF auto_lock = c
       THEN IF auto_waiters = <<>>
            THEN /\ auto_lock' = None
                 /\ rec' = [rec EXCEPT ![c] = "idle"]
                 /\ UNCHANGED auto_waiters
            ELSE /\ auto_lock' = Head(auto_waiters)
                 /\ auto_waiters' = Tail(auto_waiters)
                 /\ rec' = [rec EXCEPT ![c] = "idle", ![Head(auto_waiters)] = "lock_woken"]
       ELSE /\ rec' = [rec EXCEPT ![c] = "idle"]
            /\ UNCHANGED <<auto_lock, auto_waiters>>
    /\ ret' = Ret("_do_recommendation", c, None, None)
    /\ UNCHANGED <<superseded, inactive_sent, qvars, wvars, lvars, base, kvars, hvars>>

NextRuns ==
    \/ \E value \in AutoPlayModes : set_autoplay(value)
    \/ \E c \in Callers : recommend_event(c)
    \/ \E c \in Callers : recommend_populate(c)
    \/ \E c \in Callers : recommend_acquired(c)
    \/ \E c \in Callers : recommend_done(c)

SpecRuns == Init /\ [][NextRuns]_vars

\* Player.__init__, lines 101-104: the player is assigned a node.
InitOwner ==
    /\ InitQueue
    /\ InitPlayer
    /\ InitNode
    /\ InitAuto
    /\ InitEvents
    /\ InitCache
    /\ InitLater
    /\ InitWs
    /\ Backoff_defaults
    /\ node_retries = <<>>
    /\ sessions = [node \in NodeObjects |-> None]
    /\ connects = [node \in NodeObjects |-> 0]
    /\ pnode \in [Guilds -> Nodes]
    /\ pstate = [g \in Guilds |-> "new"]
    /\ sw = [c \in Callers |-> Idle]

VoiceOutcomes == {"ok", "LavalinkException", "NodeException"}

\* The guilds whose players act: the race is between calls on one player.
OwnerGuilds == {"g1"}

NextOwner ==
    \/ \E g \in OwnerGuilds : Player_connect(g)
    \/ \E g \in OwnerGuilds, outcome \in VoiceOutcomes : on_voice_server_update(g, outcome)
    \/ \E g \in OwnerGuilds : Player_disconnect(g)
    \/ \E c \in Pair, g \in OwnerGuilds, new_node \in Nodes, voice \in BOOLEAN :
            switch_node(c, g, new_node, voice)
    \/ \E c \in Pair, voice \in BOOLEAN : switch_destroyed(c, voice)
    \/ \E c \in Pair, outcome \in VoiceOutcomes : switch_voiced(c, outcome)
    \/ \E n \in Nodes : Node_cleanup(n)
    \/ \E n \in Nodes : Node_close_players(n)

SpecOwner == InitOwner /\ [][NextOwner]_vars

\* The voice handshake of one player on its node: the host's calls, the
\* voice updates it forwards and the closes the node reports.
InitHandshake ==
    /\ Init
    /\ pnode[G] = WsNode

CloseCodes == {4014, 4006}

NextHandshake ==
    \/ connect
    \/ \E channel_id \in BOOLEAN : on_voice_state_update(channel_id)
    \/ \E token \in BOOLEAN, endpoint \in BOOLEAN, outcome \in VoiceOutcomes :
            Player_on_voice_server_update(token, endpoint, outcome)
    \/ disconnect
    \/ \E timeout \in BOOLEAN : wait_over(timeout)
    \/ \E channel \in BOOLEAN, outcome \in {"ok", "ConnectionClosed"} : move_to(channel, outcome)
    \/ \E code \in CloseCodes, by_remote \in BOOLEAN : _disconnected_wait(code, by_remote)
    \/ disconnected_resume
    \/ \E reason \in EndReasons :
            registered_playing /\ Len(ended) < MaxEnded /\ TrackEndEvent(reason)
    \/ track_end_disabled
    \/ _track_start
    \/ play("a", TRUE, <<>>, <<>>, None, FALSE, "ok")

SpecHandshake == InitHandshake /\ [][NextHandshake]_vars

\* The inactivity countdowns of one player: it connects, tracks are played,
\* start and end, and countdowns expire.
NextIdle ==
    \/ connect
    \/ \E channel_id \in BOOLEAN : on_voice_state_update(channel_id)
    \/ \E outcome \in VoiceOutcomes : Player_on_voice_server_update(TRUE, TRUE, outcome)
    \/ \E timeout \in BOOLEAN : wait_over(timeout)
    \/ disconnect
    \/ play("a", TRUE, <<>>, <<>>, None, FALSE, "ok")
    \/ \E reason \in EndReasons :
            registered_playing /\ Len(ended) < MaxEnded /\ TrackEndEvent(reason)
    \/ track_end_disabled
    \/ _track_start
    \/ \E which \in {"current", "superseded", "orphan"} : _inactivity_task_callback(which)

SpecIdle == InitHandshake /\ [][NextIdle]_vars

\* The track-end events of one player: the queue is filled, the modes are
\* set, tracks are played and end, and the handler task runs.
ChannelLimitArgs == {<<>>, <<1>>}

InitEnd ==
    /\ InitQueue
    /\ InitPlayer
    /\ InitAuto
    /\ InitCache
    /\ InitLater
    /\ InitWs
    /\ InitObjects
    /\ Backoff_defaults
    /\ node_retries = <<>>
    /\ pool = <<>>
    /\ nstatus \in {[n \in Nodes |-> IF n = WsNode THEN st ELSE "DISCONNECTED"] :
                        st \in {"CONNECTED", "DISCONNECTED"}}
    /\ total = [n \in Nodes |-> <<>>]
    /\ players = [n \in Nodes |-> {}]
    /\ ended = <<>>
    /\ channel_limit \in ChannelLimitArgs
    /\ channel_count = IF channel_limit = <<>> THEN 0 ELSE channel_limit[1]
    /\ error_count = 0

NextEnd ==
    \/ put(One("a"), FALSE)
    \/ \E value \in QueueModes : set_mode(value)
    \/ \E value \in AutoPlayModes : set_autoplay(value)
    \/ play("a", TRUE, <<>>, <<>>, None, FALSE, "ok")
    \/ \E reason \in EndReasons : Len(ended) < MaxEnded /\ TrackEndEvent(reason)
    \/ \E channel \in BOOLEAN, members \in BOOLEAN, outcome \in Outcomes :
            _auto_play_event(channel, members, <<"b">>, outcome)

SpecEnd == InitEnd /\ [][NextEnd]_vars

\* The receive loop of the node and the handler tasks it creates: several
\* track-end events may be received before the first handler task runs.
MaxPending == 2

NextTrackEnd ==
    \/ \E reason \in EndReasons : Len(ended) < MaxPending /\ TrackEndEvent(reason)
    \/ \E channel \in BOOLEAN, members \in BOOLEAN, outcome \in Outcomes :
            _auto_play_event(channel, members, <<"b">>, outcome)
    \/ \E value \in AutoPlayModes : set_autoplay(value)
    \/ play("a", TRUE, <<>>, <<>>, None, FALSE, "ok")

SpecTrackEnd == InitEnd /\ [][NextTrackEnd]_vars

\* The token count of one player: the limit is set, tracks are played and
\* end, and the handler task runs with or without members in the channel.
MaxTokens == 3
TokenArgs == {<<>>} \cup {<<n>> : n \in -1..MaxTokens}

NextTokens ==
    \/ \E value \in TokenArgs : inactive_channel_tokens(value)
    \/ \E value \in AutoPlayModes : set_autoplay(value)
    \/ play("a", TRUE, <<>>, <<>>, None, FALSE, "ok")
    \/ \E reason \in EndReasons : Len(ended) < MaxEnded /\ TrackEndEvent(reason)
    \/ \E channel \in BOOLEAN, members \in BOOLEAN, outcome \in Outcomes :
            _auto_play_event(channel, members, <<"b">>, outcome)

SpecTokens == InitEnd /\ [][NextTokens]_vars

\* Pool.get_node as a function of the registry: every registry of distinct
\* nodes, every status and reported count of a registered node, and every
\* assignment of the guilds' players to registered nodes.
Registries == {r \in SeqsUpTo(Nodes, Cardinality(Nodes)) : \A i, j \in DOMAIN r : i # j => r[i] # r[j]}

InitPool ==
    /\ InitQueue
    /\ InitPlayer
    /\ InitAuto
    /\ InitEvents
    /\ InitCache
    /\ InitLater
    /\ InitWs
    /\ InitObjects
    /\ Backoff_defaults
    /\ node_retries = <<>>
    /\ pool \in Registries
    /\ nstatus \in [Nodes -> NodeStatuses]
    /\ total \in [Nodes -> Counts]
    /\ players \in [Nodes -> SUBSET Guilds]
    /\ \A n \in Nodes : n \notin {pool[i] : i \in DOMAIN pool} =>
            nstatus[n] = "DISCONNECTED" /\ total[n] = <<>> /\ players[n] = {}
    /\ \A n, m \in Nodes : n # m => players[n] \cap players[m] = {}

NextPool == \E identifier \in Nodes \cup {None} : get_node(identifier)

SpecPool == InitPool /\ [][NextPool]_vars

----------------------------------------------------------------------------
(* Claims about the Queue, under SpecQueue                                  *)

IsPrefix(s, t) == Len(s) <= Len(t) /\ \A i \in 1..Len(s) : s[i] = t[i]

Count(s) == [t \in Tracks |-> Cardinality({i \in DOMAIN s : s[i] = t})]

Held == [t \in Tracks |-> Count(items)[t] + Count(history)[t]]

Plus1(f, t) == [f EXCEPT ![t] = @ + 1]

\* C2 as stated: in every segment without a change of mode, whatever the mode,
\* get returns the tracks in the order in which they were put.
C2_FifoAnyMode == IsPrefix(getLog, putLog)

\* C2, amended: in every segment without a change of mode in which the mode is
\* not loop, the tracks get has returned, followed by the tracks still in items,
\* are the tracks put, in the order in which they were put.
C2_FifoNotLoop == mode # "loop" => (IsPrefix(getLog, putLog) /\ getLog \o items = putLog)

\* Two different tracks were put and then returned by get, in normal mode.
C2_Witness ==
    /\ mode = "normal"
    /\ ret.op = "get"
    /\ getLog = <<"a", "b">>
    /\ putLog = <<"a", "b", "a">>

\* C3 as stated: in loop mode no get changes items, and consecutive gets
\* return the same track.
C3_LoopGetNeverShrinks ==
    [][(mode = "loop" /\ ret'.op = "get")
         => (items' = items /\ (ret.op = "get" => ret'.val = ret.val))]_vars

\* C3, amended: in loop mode with a track loaded, every get returns the loaded
\* track and changes neither items nor the loaded track nor the history, so
\* that any number of consecutive gets return the same track.
C3_LoopGetLoaded ==
    [][(mode = "loop" /\ loaded # None /\ ret'.op = "get")
         => /\ ret'.val = loaded
            /\ ret'.exc = None
            /\ items' = items
            /\ loaded' = loaded
            /\ history' = history]_vars

\* Two consecutive gets in loop mode returned the loaded track, items not empty.
C3_Witness ==
    /\ mode = "loop"
    /\ loaded = "a"
    /\ ret.op = "get"
    /\ getLog = <<"a", "a">>
    /\ items = <<"b">>

\* C4: in loop_all mode a get that returns a track takes exactly this track
\* out of items and history together, a get that raises takes nothing, the
\* append of the returned track to the history gives it back, and a get on
\* exhausted items refills items from the history in history order, clears
\* the history and returns the first refilled track.
C4_LoopAllConservation ==
    [][mode = "loop_all" =>
         /\ (ret'.op = "get" /\ ret'.exc = None) => Plus1(Held', ret'.val) = Held
         /\ (ret'.op = "get" /\ ret'.exc # None) => Held' = Held
         /\ ret'.op = "history_put" => Held' = Plus1(Held, ret.val)
         /\ (ret'.op = "get" /\ items = <<>> /\ history # <<>>)
              => /\ ret'.val = Head(history)
                 /\ items' = Tail(history)
                 /\ history' = <<>>]_vars

\* In loop_all mode both tracks were played and appended to the history, and
\* the next get has refilled items from the history.
C4_Witness ==
    /\ mode = "loop_all"
    /\ ret.op = "get"
    /\ getLog = <<"a", "b", "a">>
    /\ items = <<"b">>
    /\ history = <<>>

HasNotPlayable(s) == \E i \in 1..Len(s) : s[i] \notin Tracks

IsTrack(e) == e \in Tracks

C5_WaitersInOrder ==
    /\ \A c \in Callers : pc[c] = "done" => got[c] \in Tracks
    /\ \A t \in Tracks : Count(getLog)[t] <= Count(putLog)[t]
    /\ \A c1, c2 \in Callers :
        (ticket[c1] # 0 /\ ticket[c2] # 0 /\ ticket[c1] < ticket[c2] /\ pc[c2] = "done")
            => pc[c1] = "done"

\* C1: when the player-update request of play() fails and play() has raised,
\* the current track, the previous track and the volume are what they were
\* immediately before the call.
C1_PlayFailureRestores ==
    [][(ret'.op = "play" /\ ret'.exc # None)
        => (current' = current /\ previous' = previous /\ volume' = volume)]_vars

\* The player count known for a node: the count its last stats message
\* reported, the size of its local registry when none was reported.
KnownCount(n) == IF total[n] = <<>> THEN Cardinality(players[n]) ELSE total[n][1]

\* C7: get_node() without an identifier returns a CONNECTED node of the pool
\* whose known player count (the reported count when one was reported, the
\* local registry size otherwise) is minimal among the CONNECTED nodes, and
\* no CONNECTED node registered before it has the same count.
C7_GetNodeMinimal ==
    (ret.op = "get_node" /\ ret.arg = None /\ ret.exc = None) =>
        LET c == connected_nodes
            at == CHOOSE i \in 1..Len(c) : c[i] = ret.val
        IN /\ \E i \in 1..Len(c) : c[i] = ret.val
           /\ \A j \in 1..Len(c) : KnownCount(ret.val) <= KnownCount(c[j])
           /\ \A j \in 1..(at-1) : KnownCount(c[j]) # KnownCount(ret.val)

\* C8: a recommendation run never forms a query from an identifier that
\* was in the seed history when the run started: neither one of the Spotify
\* seeds nor the YouTube seed.
C8_SeedNotReused ==
    [][runs' = runs + 1 =>
        \A seed \in Range(query'.spotify) \cup Range(query'.youtube) :
            seed \notin Range(previous_seeds)]_vars

\* C9: when the message received after opening the socket is "ready",
\* connect() stores the session id, sets the node CONNECTED, resets the
\* backoff, emits exactly one node-ready notification, spawns the keep-alive
\* loop and returns normally, with no further attempt.
C9_ReadyConnects ==
    [][(wpc = "receive" /\ ret'.op = caller /\ ret'.arg = "ready") =>
        /\ session_id' \in SessionIds
        /\ nstatus'[WsNode] = "CONNECTED"
        /\ b_retries' = 1 /\ b_last_wait' = 0
        /\ emitted' = <<"node_ready">>
        /\ keep_alive' = "running"
        /\ wpc' = "done"
        /\ ret'.exc = None]_vars

\* C10: once the node is CONNECTED and connect() is over, the keep-alive
\* loop is running on the open socket, so that a playerUpdate message for a
\* guild without a player is received and dispatched exactly once.
C10_ConnectedReceives ==
    (nstatus[WsNode] = "CONNECTED" /\ wpc \in {"done", "raised"}) =>
        (keep_alive = "running" /\ socket = "open")

\* The bound of the uniform draw of a calculate() call made at an attempt.
DrawBound(attempt) == 2 * b_base * Min(attempt * attempt, b_maximum_time)

\* C11 as stated: every delay calculate() returns lies within
\* [0, 2*base*min(attempt^2, ceiling)] and is not below the last delay of
\* the episode.
C11_DelayWithinDraw ==
    [][ret'.op = "calculate" =>
        /\ 0 <= ret'.val
        /\ ret'.val <= DrawBound(b_retries)
        /\ b_last_wait <= ret'.val]_vars

\* C11: every delay calculate() returns lies within
\* [0, max(2*base*min(attempt^2, ceiling), 2*last delay)], never exceeds the
\* ceiling, and is not below the last delay of the episode.
C11_DelayWithinDrawOrDouble ==
    [][ret'.op = "calculate" =>
        /\ 0 <= ret'.val
        /\ ret'.val <= Max(DrawBound(b_retries), 2 * b_last_wait)
        /\ ret'.val <= b_maximum_time
        /\ b_last_wait <= ret'.val]_vars

\* A doubled delay above the bound of the draw has been returned.
C11_Witness ==
    /\ ret.op = "calculate"
    /\ ret.val > DrawBound(ret.arg[1])
    /\ ret.val < b_maximum_time

\* C12 as stated: with maximum_tries = M, after M calls of calculate() on a
\* fresh Backoff the attempt counter is 1 and the last delay 0.
C12_ResetAfterMCalls ==
    (b_maximum_tries # <<>> /\ b_calls = b_maximum_tries[1]) =>
        (b_retries = 1 /\ b_last_wait = 0)

\* C12: with maximum_tries = M, the call of calculate() made at attempt M
\* (the M-th call of an episode no clamp has cut short) leaves the attempt
\* counter at 1 and the last delay at 0; with maximum_tries unset a call
\* either increments the attempt counter or is clamped to the ceiling.
C12_ResetAtAttemptM ==
    [][ret'.op = "calculate" =>
        /\ (b_maximum_tries # <<>> /\ b_retries = b_maximum_tries[1]) =>
               (b_retries' = 1 /\ b_last_wait' = 0)
        /\ b_maximum_tries = <<>> =>
               (b_retries' = b_retries + 1 \/ ret'.val = b_maximum_time)]_vars

\* The call at attempt 5 has reset a Backoff of maximum_tries 5 without
\* being clamped.
C12_Witness ==
    /\ b_maximum_tries = <<5>>
    /\ ret.op = "calculate"
    /\ ret.arg[1] = 5
    /\ ret.val < b_maximum_time
    /\ b_retries = 1
    /\ b_last_wait = 0

\* C13: with a retry budget of N, a Websocket.connect makes at most N + 1
\* attempts, a backoff delay has been computed before every attempt but the
\* first, and when it ends exhausted the node is DISCONNECTED without a
\* session id.
C13_BoundedAttempts ==
    (node_retries # <<>> /\ wpc # "idle") =>
        /\ attempts <= node_retries[1] + 1
        /\ attempts >= 1 => b_calls >= attempts - 1
        /\ (wpc = "done" /\ ret.arg = "exhausted") =>
               (nstatus[WsNode] = "DISCONNECTED" /\ session_id = None)

\* C14: a handshake rejected with 401 makes connect() clean up and raise
\* AuthorizationFailedException, one rejected with 404 clean up and raise
\* NodeException; connect() is then over, no backoff delay has been
\* computed, and the node is DISCONNECTED without a session id.
C14_FatalHandshake ==
    [][(wpc = "ws_connect" /\ ret'.op = caller /\ ret'.arg \in {"401", "404"}) =>
        /\ ret'.val = IF ret'.arg = "401" THEN "AuthorizationFailedException"
                      ELSE "NodeException"
        /\ emitted' = <<"node_disconnected">>
        /\ socket' # "open"
        /\ wpc' = "raised"
        /\ retries' = retries
        /\ <<b_retries', b_last_wait', b_calls'>> = <<b_retries, b_last_wait, b_calls>>
        /\ nstatus'[WsNode] = "DISCONNECTED"
        /\ session_id' = None]_vars

\* A second attempt of a connect() has been rejected with 404.
C14_Witness ==
    /\ wpc = "raised"
    /\ ret.arg = "404"
    /\ ret.val = "NodeException"
    /\ attempts > 1
    /\ b_calls > 0
    /\ nstatus[WsNode] = "DISCONNECTED"

\* No two registered Node objects have the same identifier.
UniqueIdentifiers ==
    \A i, j \in DOMAIN pool : identifier_of(pool[i]) = identifier_of(pool[j]) => i = j

\* C15: Pool.connect with a node whose identifier is registered makes no
\* connection attempt and leaves the registry and the status and session id
\* of every Node object as they are; and the registry never holds two nodes
\* under one identifier.
C15_DuplicateRejected ==
    [][/\ (ret'.op = "Pool.connect" /\ registered(ret'.arg)) =>
            UNCHANGED <<pool, nstatus, sessions, connects, players>>
       /\ UniqueIdentifiers']_vars

\* A Node object has been rejected for the identifier of another, registered
\* Node object.
C15_Witness ==
    /\ ret.op = "Pool.connect"
    /\ ret.val = "registered"
    /\ ret.arg \notin Range(pool)
    /\ registered(ret.arg)

\* C16: a DISCONNECTED node has no session id; a CONNECTED node has the
\* session id of the last ready message; there is no session id before the
\* first ready message; and every cleanup and every close leaves the node
\* without a session id.
C16_SessionFollowsStatus ==
    [][/\ nstatus'[WsNode] = "DISCONNECTED" => session_id' = None
       /\ nstatus'[WsNode] = "CONNECTED" => (session_id' = ready_sid' /\ session_id' \in SessionIds)
       /\ ready_sid' = None => session_id' = None
       /\ (ret'.op = "close" \/ ret'.arg \in {"401", "404", "exhausted", "exception", "non_text"})
              => session_id' = None]_vars

\* A node that was cleaned up during connect() and then received ready is
\* CONNECTED without a websocket, and a close() has cleared its session id.
C16_Witness ==
    /\ ret.op = "close"
    /\ ready_sid \in SessionIds
    /\ ~websocket
    /\ session_id = None
    /\ nstatus[WsNode] = "DISCONNECTED"
    /\ wpc = "raised"

\* C17: the player of a guild is in the player registry of at most one
\* node, and a node that has it in its registry is the node the player is
\* assigned to.
C17_OneOwner ==
    \A g \in Guilds :
        /\ Cardinality({n \in Nodes : g \in players[n]}) <= 1
        /\ \A n \in Nodes : g \in players[n] => pnode[g] = n

\* C18: whatever play and set_volume calls were made, and however their
\* requests ended, the volume of the player is within 0..1000.
C18_VolumeInRange == volume \in 0..1000

\* C19: while autoplay is disabled, the handler of a track-end event takes
\* no track from the queue and issues no play request.
C19_DisabledDoesNothing ==
    [][(ret'.op = "_auto_play_event" /\ autoplay = "disabled") =>
        /\ items' = items
        /\ loaded' = loaded
        /\ current' = current
        /\ ret'.val = None]_vars


\* ---------------------------------------------------------------------
\* The request cache under Pool.cache and Pool.fetch_tracks.

\* The capacities Pool.cache is called with (empty: None).
CapacityArgs == {<<>>, <<0>>, <<1>>, <<2>>}

\* One registered node, connected or not.
InitFetch ==
    /\ InitQueue
    /\ InitPlayer
    /\ InitAuto
    /\ InitEvents
    /\ InitCache
    /\ InitLater
    /\ InitWs
    /\ InitObjects
    /\ Backoff_defaults
    /\ node_retries = <<>>
    /\ pool = <<"n1">>
    /\ \E status \in {"CONNECTED", "DISCONNECTED"} :
         nstatus = [n \in Nodes |-> IF n = "n1" THEN status ELSE "DISCONNECTED"]
    /\ total = [n \in Nodes |-> <<>>]
    /\ players = [n \in Nodes |-> {}]

NextFetch ==
    \/ \E capacity \in CapacityArgs : Pool_cache(capacity)
    \/ \E q \in Queries, node \in {None, "n1"}, resp \in Responses : fetch_tracks(q, node, resp)

SpecFetch == InitFetch /\ [][NextFetch]_vars

\* C20: the request cache never holds an entry whose result contains a
\* live-stream track, whichever loadType produced the result, and
\* fetch_tracks never returns a live-stream result from the cache.
C20_NoStreamCached ==
    /\ \A k \in EncodedQueries :
         cache[k] # <<>> => \A i \in DOMAIN cache[k][1].tracks : ~is_stream(cache[k][1].tracks[i])
    /\ (ret.op = "fetch_tracks" /\ ret.exc = None /\ ret.arg[2] = "cache")
         => \A i \in DOMAIN ret.val.tracks : ~is_stream(ret.val.tracks[i])


\* The waiters of w that are pending under f, in their order, without c.
PendingOthers(w, f, c) == SelectSeq(w, LAMBDA x : x # c /\ f[x] = "pending")

AcquiredAt(c) == CHOOSE k \in DOMAIN acquired : acquired[k] = c

\* C22: every track in the queue was inserted by a put_wait call that
\* acquired the lock, and a track inserted by one call never comes before a
\* track inserted by a call that acquired the lock earlier: the tracks of
\* two put_wait calls never interleave, with either atomic setting.
C22_PutWaitSerialized ==
    /\ Len(putter) = Len(items)
    /\ \A i \in DOMAIN putter : putter[i] \in Range(acquired)
    /\ \A i, j \in DOMAIN putter : i < j => AcquiredAt(putter[i]) <= AcquiredAt(putter[j])

\* One call has returned with its tracks in the queue, a second one, not
\* atomic, is suspended between its insertions, and a third waits for the lock.
C22_Witness ==
    \E c1, c2, c3 \in Callers :
        /\ pw[c1].pc = "done" /\ c1 \in Range(putter)
        /\ pw[c2].pc = "inserting" /\ pw[c2].kind = "many" /\ ~pw[c2].atomic
        /\ pw[c2].rest # <<>> /\ c2 \in Range(putter)
        /\ pw[c3].pc = "locking"


\* C23: the handler of a track-end event never ends with the exception of
\* the play request it issued, and whenever that request failed the
\* inactivity timer has been started.
C23_AutoplayFailureContained ==
    [][(ret'.op = "_auto_play_event")
        => /\ ret'.exc = None
           /\ ret'.exc \in (Outcomes \ {"ok"}) => timers' = timers + 1]_vars


\* C24: a node that is in the registry of the Pool has received "ready" on
\* its websocket at least once.
C24_RegisteredWereReady == WsNode \in Range(pool) => ready_sid # None


\* C25: the connected flag of the player is set only if a voice-update
\* request reached its node since the player was last invalidated; a
\* voice-update request carries all three of session id, token and
\* endpoint; and after a voice-update request that failed the player is
\* disconnected: not connected and not in the registry of its node.
C25_ConnectedAfterDispatch ==
    /\ _connected => dispatched
    /\ vreq # <<>> => \A k \in VoiceKeys : vreq[1][k]
    /\ (ret.op = "on_voice_server_update" /\ ret.val = "failed")
         => (~_connected /\ G \notin players[pnode[G]])


\* C26: whenever no move_to call is waiting for the handshake, whether none
\* was made or the last one returned or raised, the flag that allows
\* reconnecting is set.
C26_ReconnectingRestored ==
    vpc \notin {"move_wait", "move_woken"} => reconnecting


\* C27: the handling of a voice websocket close reported for the player
\* changes nothing when the code is not 4014 or the close was initiated
\* locally. For a 4014 close initiated by Discord: with no move in progress
\* the player is destroyed at once; when the handling resumes after a move,
\* the player is kept, connected and registered, if a voice update reached
\* the node since the close was reported, and is destroyed otherwise.
C27_RemoteCloseDestroys ==
    [][(ret'.op = "_disconnected_wait") =>
        LET resumed == dwait'.woken < dwait.woken
            kept == ret'.val = "kept" /\ _connected' /\ G \in players'[pnode'[G]]
            destroyed == ret'.val = "destroyed" /\ ~_connected' /\ G \notin players'[pnode'[G]]
        IN  /\ ret'.arg = "other" => (UNCHANGED hvars /\ players' = players)
            /\ (ret'.arg # "other" /\ ret'.exc = None) =>
                 IF resumed /\ dispatched THEN kept ELSE destroyed]_vars


\* C28: a switch_node call that ends with invalid-node changes neither the
\* registries nor the node or state of the player; a call ends without an
\* exception only when the voice update request it awaited on the new node
\* succeeded, and then the player is registered with the new node alone;
\* every other call ends with RuntimeError and leaves the player out of the
\* registry of the new node.
C28_SwitchNeedsHandshake ==
    [][(ret'.op = "switch_node" /\ ret'.val = None) =>
        LET g == ret'.arg[1]
            new_node == ret'.arg[2]
        IN  /\ ret'.exc = "InvalidNodeException" =>
                 (players' = players /\ pnode' = pnode /\ pstate' = pstate)
            /\ ret'.exc = None =>
                 /\ \E c \in Pair : sw[c].pc = "voice" /\ sw'[c].pc = "idle"
                 /\ {n \in Nodes : g \in players'[n]} = {new_node}
            /\ ret'.exc \notin {None, "InvalidNodeException"} =>
                 /\ ret'.exc = "RuntimeError"
                 /\ g \notin players'[new_node]]_vars


\* C29: after a destroy of the player by disconnect, by a voice state
\* update without a channel or by the handling of a remote close, the
\* player is not in the registry of its node, its connected flag is false,
\* no inactivity countdown of the player is pending, nothing was raised,
\* and at most one discard request was sent since the player registered.
C29_DestroyedIsGone ==
    [][(\/ ret'.op = "disconnect"
        \/ ret'.op = "on_voice_state_update" /\ ret'.arg = "exit"
        \/ ret'.op = "_disconnected_wait" /\ ret'.val = "destroyed") =>
        /\ G \notin players'[pnode'[G]]
        /\ ~_connected'
        /\ ~itask'
        /\ timers' = 0
        /\ ret'.exc = None
        /\ discards' <= 1]_vars


\* C30: a node that is CONNECTED once its connect() has ended has the
\* keep-alive loop that receives the close frame of the server; and every
\* connect() of a node that is registered or was ready before is the one
\* the keep-alive loop scheduled: it finds the node CONNECTED, emits
\* node_disconnected, sets CONNECTING and keeps the session id of the last
\* ready message for the Session-Id header.
C30_ReconnectFromKeepAlive ==
    [][/\ (nstatus'[WsNode] = "CONNECTED" /\ wpc' \in {"done", "raised"}) => keep_alive' = "running"
       /\ (/\ wpc \in {"idle", "done", "raised"}
           /\ wpc' = "ws_connect"
           /\ (WsNode \in Range(pool) \/ ready_sid # None)) =>
            /\ keep_alive = "running"
            /\ caller' = "keep_alive"
            /\ emitted' = <<"node_disconnected">>
            /\ nstatus[WsNode] = "CONNECTED"
            /\ nstatus'[WsNode] = "CONNECTING"
            /\ session_id' = ready_sid]_vars


\* C31: the receive loop's handling of a track-end event of a registered
\* player clears the current track when the reason is not "replaced" and
\* leaves it alone when it is, dispatches track_end, and creates exactly one
\* task for the autoplay continuation, behind the tasks of the events
\* received before it, without waiting for any of them.
C31_TrackEndHandled ==
    [][(ret'.op = "TrackEndEvent") =>
        /\ current' = (IF ret'.arg # "replaced" THEN None ELSE current)
        /\ ret'.val = "track_end"
        /\ ended' = Append(ended, ret'.arg)
        /\ ret'.exc = None]_vars

\* A "replaced" event was received behind a pending event of another
\* reason, and the track that replaced the old one is still current.
C31_Witness ==
    /\ ret.op = "TrackEndEvent"
    /\ ret.arg = "replaced"
    /\ current # None
    /\ Len(ended) = 2
    /\ ended[1] # "replaced"


\* C32: the continuation of a track end whose reason is not "loadFailed",
\* when it does anything at all (the player has a channel) and autoplay is
\* not disabled, leaves the count of consecutive errors at 0, so that the
\* continuations after it go on with playback.
C32_SuspensionEnds ==
    [][(/\ ret'.op = "_auto_play_event"
        /\ ret'.arg # "loadFailed"
        /\ autoplay # "disabled"
        /\ <<channel_count, timers, error_count, current, items>>'
                # <<channel_count, timers, error_count, current, items>>) =>
        error_count' = 0]_vars


\* C33: at most one run of the recommendation algorithm of the player is
\* between its start and its end at any time.
C33_OneRecommendation == Cardinality({c \in Callers : rec[c] = "searching"}) <= 1


\* C34: a countdown whose expiry dispatches the inactive-player notification
\* was created after the last track start, and at that moment the player is
\* not playing and has a guild.
C34_NotifiedAfterIdle ==
    [][(ret'.op = "_inactivity_task_callback" /\ ret'.val = "inactive_player") =>
        /\ ret'.arg # "superseded"
        /\ ~playing
        /\ vpc # "new"]_vars

\* C37: at most one countdown task of the player is pending, and after the
\* handler of a track start none is.
C37_OneCountdown ==
    /\ timers <= 1
    /\ ret.op = "_track_start" => timers = 0

\* C35: with a token limit L > 0 the token count lies in 1..L between
\* the handlers; the setter starts it at L; the handler of a track end of
\* a player with a channel sets it to L and sends nothing when a member
\* who is not a bot is in the channel, takes one from it and sends
\* nothing when nobody is and more than one token is left, and sends one
\* inactive-player notification and sets it to L when nobody is and one
\* token is left. L minus the count is therefore the number of handlers
\* in a row that found the channel empty, and the notification is sent by
\* every L-th of them.
C35_TokenCounter ==
    [][/\ channel_limit # <<>> => channel_count \in 1..channel_limit[1]
       /\ channel_limit' # <<>> => channel_count' \in 1..channel_limit'[1]
       /\ (ret'.op = "inactive_channel_tokens" /\ channel_limit' # <<>>)
            => channel_count' = channel_limit'[1]
       /\ \A members \in BOOLEAN, outcome \in Outcomes :
            (/\ ret'.op = "_auto_play_event"
             /\ channel_limit # <<>>
             /\ _auto_play_event(TRUE, members, <<"b">>, outcome))
            => IF members
               THEN channel_count' = channel_limit[1] /\ inactive_sent' = 0
               ELSE IF channel_count = 1
               THEN channel_count' = channel_limit[1] /\ inactive_sent' = 1
               ELSE channel_count' = channel_count - 1 /\ inactive_sent' = 0]_vars

C35_Witness ==
    /\ ret.op = "_auto_play_event"
    /\ inactive_sent = 1
    /\ channel_limit = <<MaxTokens>>
    /\ channel_count = MaxTokens

\* C36: a Player.play that raises leaves the filters, the paused flag and
\* the loaded track of the queue as they were before the call.
C36_PlayFailureRestoresAll ==
    [][(ret'.op = "play" /\ ret'.exc # None)
        => /\ filters' = filters
           /\ paused' = paused
           /\ loaded' = loaded]_vars

\* C38: when Node.close has completed, the node is DISCONNECTED and none
\* of its loops is still running: no Websocket.connect is at an await of
\* its retry loop and the keep-alive task is not running.
C38_ClosedStaysClosed ==
    ret.op = "close" =>
        /\ nstatus[WsNode] = "DISCONNECTED"
        /\ wpc \in {"idle", "done", "raised"}
        /\ keep_alive # "running"

\* C39: no get_wait caller is left suspended while tracks are available:
\* whenever the queue holds a track and no woken caller is still to be
\* resumed, no caller is suspended on a waiter that nothing has woken.
C39_NoCallerLeftSuspended ==
    (items # <<>> /\ ready = <<>>) =>
        \A c \in Callers : ~(pc[c] = "waiting" /\ fut[c] = "pending")

\* C40: a player that is connected, and that no switch_node call is
\* moving between nodes, is in the player registry of its node.
C40_ConnectedIsRegistered ==
    \A g \in Guilds :
        (pstate[g] = "connected" /\ \A c \in Callers : sw[c].pc = "idle")
            => g \in players[pnode[g]]

====
